---- MODULE Spec2Model ----
(***************************************************************************)
(* A model of simple-term-menu's TerminalMenu (src/simple_term_menu.py):   *)
(* the Search / View / Viewport helper classes as operators on records and *)
(* TerminalMenu.show() as a state machine whose steps can be interleaved   *)
(* with SIGWINCH (terminal resize) and SIGINT (KeyboardInterrupt).         *)
(*                                                                         *)
(* Python's None is NoneInt for optional integers, NoneKey for optional    *)
(* key names and NoneText for the optional search text.  Strings that the  *)
(* code slices or matches are sequences of one-character strings.  Menu    *)
(* indices and displayed indices are 0-based as in the source.             *)
(***************************************************************************)
EXTENDS Integers, Sequences, FiniteSets, TLC

VARIABLES
    cfg,                 \* constructor arguments of the menu object
    termLines,           \* what `tput lines` answers right now
    tty,                 \* the terminal: line discipline, cursor, keypad, streams, SIGWINCH handler
    search,              \* TerminalMenu.Search: _search_text, _search_regex, _matches
    view,                \* TerminalMenu.View: _displayed_index_to_menu_index, _selected_displayed_index
    viewport,            \* TerminalMenu.Viewport
    menu,                \* scalar attributes of the TerminalMenu object
    pc,                  \* position of the main flow inside show() ("idle": not in show())
    hpaints,             \* stack of _paint_menu() calls made by running handle_sigwinch frames
    next_key,            \* local next_key of show(), while it is live (NoneKey once the
                         \* step after its dispatch has run)
    menu_was_interrupted,\* local menu_was_interrupted of show()
    exc,                 \* exception travelling through the finally block ("None": none)
    outcome,             \* how the last show() call ended
    endReason,           \* why the loop of the running / last show() ended
    downs,               \* "down" keys dispatched since show() began on entry 0 (NoneInt: other keys came)
    unserved,            \* a resize arrived while the loop ran and no paint has begun since
    proc,                \* a run of the command-line program main()
    multi,               \* a menu in multi-select mode
    cls,                 \* the class attributes of TerminalMenu that hold the key and capability tables
    instances            \* the accept keys of the menu objects constructed in this process

\* The state of the menu object and of a call of show()
menuVars == <<cfg, termLines, tty, search, view, viewport, menu, pc, hpaints, next_key,
              menu_was_interrupted, exc, outcome, endReason, downs, unserved>>

vars == <<menuVars, proc, multi, cls, instances>>

(***************************************************************************)
(* Bounds of the model                                                     *)
(***************************************************************************)
MaxNest == 2
MaxSearchLen == 2
MaxDowns == 4
MaxEntries == 256
MaxHeight == 6
MaxConstructions == 2

NoneInt == 0 - 1
NoneKey == "None"
NoneText == <<"<None>">>

Min(a, b) == IF a < b THEN a ELSE b
Max(a, b) == IF a > b THEN a ELSE b

(***************************************************************************)
(* Program constants                                                       *)
(***************************************************************************)
DEFAULT_SEARCH_KEY == "/"
DEFAULT_ACCEPT_KEYS == <<"enter">>

\* string.ascii_lowercase
AsciiLowercase ==
    {"a","b","c","d","e","f","g","h","i","j","k","l","m",
     "n","o","p","q","r","s","t","u","v","w","x","y","z"}

\* str.lower() on one character
LowerChar(c) ==
    CASE c = "A" -> "a" [] c = "B" -> "b" [] c = "C" -> "c" [] c = "D" -> "d"
      [] c = "E" -> "e" [] c = "F" -> "f" [] c = "G" -> "g" [] c = "H" -> "h"
      [] c = "I" -> "i" [] c = "J" -> "j" [] c = "K" -> "k" [] c = "L" -> "l"
      [] c = "M" -> "m" [] c = "N" -> "n" [] c = "O" -> "o" [] c = "P" -> "p"
      [] c = "Q" -> "q" [] c = "R" -> "r" [] c = "S" -> "s" [] c = "T" -> "t"
      [] c = "U" -> "u" [] c = "V" -> "v" [] c = "W" -> "w" [] c = "X" -> "x"
      [] c = "Y" -> "y" [] c = "Z" -> "z" [] OTHER -> c

\* The names _read_next_key can return for a terminal code it knows
Codenames == {"up", "down", "enter", "escape", "backspace", "ctrl-j", "ctrl-k"}

\* str.lower() on what _read_next_key returned: codenames are lowercase already
LowerKey(k) == IF k \in Codenames THEN k ELSE LowerChar(k)

\* The characters of a key as a string (used when a key is put into the search text)
KeyChars(k) ==
    CASE k = "backspace" -> <<"b","a","c","k","s","p","a","c","e">>
      [] k = "up" -> <<"u","p">>
      [] k = "down" -> <<"d","o","w","n">>
      [] k = "enter" -> <<"e","n","t","e","r">>
      [] k = "escape" -> <<"e","s","c","a","p","e">>
      [] k = "ctrl-j" -> <<"c","t","r","l","-","j">>
      [] k = "ctrl-k" -> <<"c","t","r","l","-","k">>
      [] OTHER -> <<k>>

(***************************************************************************)
(* The menus the model constructs                                          *)
(***************************************************************************)
RawEntryLists ==
    << << <<"a","p","p","l","e">>, <<"b","a","n","a","n","a">>, <<"c","h","e","r","r","y">> >>,
       << <<"[","a","]"," ","A","l","p","h","a">>, <<"[","b","]"," ","B","e","t","a">> >>,
       << <<"[","b","]"," ","B","e","t","a">>, <<"[","A","]"," ","A","l","p","h","a">> >>,
       << <<"a","p","p","l","e">> >>,
       << <<"a","p","p","l","e">>, <<"b","a","n","a","n","a">>, <<"c","h","e","r","r","y">>,
          <<"d","a","t","e">> >> >>

TermHeights == {3, 5}

\* What the terminal can send: codes of known keys, plain characters, and a
\* byte sequence outside ASCII
NonAsciiKey == "e-acute"
ControlKeys == {"up", "down", "enter", "escape", "backspace", NonAsciiKey}
CharKeys == {"/", "q", "a", "b", "A"}
Keys == ControlKeys \cup CharKeys
\* The characters the model types into a search that is open
SearchChars == {"a", "b"}

\* The keys the model presses: any key while browsing; while searching the control
\* keys, the search characters while the text is short, and "/" on an empty text
KeysAt(text) ==
    IF text = NoneText THEN Keys
    ELSE ControlKeys \cup (IF Len(text) < MaxSearchLen THEN SearchChars ELSE {})
                     \cup (IF text = <<>> THEN {DEFAULT_SEARCH_KEY} ELSE {})

Configs ==
    { c \in [entries: 1..4, search_key: {NoneKey, DEFAULT_SEARCH_KEY},
             exit_on_shortcut: BOOLEAN, cycle_cursor: BOOLEAN,
             search_case_sensitive: {FALSE}, show_search_hint: {FALSE},
             title_lines: {0}, preview: {"none"}, preview_percent: {25}] :
        \* options that make no difference to a menu are left at their defaults
        /\ (c.entries \in {1, 4} => c.exit_on_shortcut)
        /\ (c.entries \in {2, 3} => c.cycle_cursor)
        /\ (c.entries = 4 => c.search_key # NoneKey) }

\* Menus with a preview provider: a command line (a str) or a function (a callable);
\* preview_percent is preview_size in hundredths
PreviewConfigs ==
    [entries: {1}, search_key: {DEFAULT_SEARCH_KEY}, exit_on_shortcut: {TRUE},
     cycle_cursor: {TRUE}, search_case_sensitive: {FALSE}, show_search_hint: {FALSE},
     title_lines: {0}, preview: {"command", "function"}, preview_percent: {50}]

\* Terminal heights for the menus with a preview: one too low for a preview box, one
\* that leaves room for it
PreviewTermHeights == {4, 6}

\* A menu with a title of two lines
TitleConfigs ==
    [entries: {1}, search_key: {DEFAULT_SEARCH_KEY}, exit_on_shortcut: {TRUE},
     cycle_cursor: {TRUE}, search_case_sensitive: {FALSE}, show_search_hint: {FALSE},
     title_lines: {2}, preview: {"none"}, preview_percent: {25}]

\* The heights the terminal of a menu takes
Heights(c) == IF c.preview = "none" THEN TermHeights ELSE PreviewTermHeights

(***************************************************************************)
(* extract_shortcuts_menu_entries_and_preview_arguments: an optional       *)
(* leading "[x]" (x not a space) followed by optional spaces, then the     *)
(* display text of at least one character.  The entries of the model hold  *)
(* no "|", so the separator substitution leaves them unchanged.            *)
(***************************************************************************)
IsSpace(c) == c \in {" ", "\t"}

RECURSIVE StripLeft(_)
StripLeft(s) == IF s # <<>> /\ IsSpace(Head(s)) THEN StripLeft(Tail(s)) ELSE s

HasShortcut(e) ==
    /\ Len(e) >= 4
    /\ e[1] = "["
    /\ ~IsSpace(e[2])
    /\ e[3] = "]"

ShortcutOf(e) == IF HasShortcut(e) THEN e[2] ELSE NoneKey

DisplayTextOf(e) ==
    IF HasShortcut(e)
    THEN LET rest == SubSeq(e, 4, Len(e))
         IN IF StripLeft(rest) # <<>> THEN StripLeft(rest) ELSE <<rest[Len(rest)]>>
    ELSE e

RawEntries(c) == RawEntryLists[c.entries]
NumEntries(c) == Len(RawEntries(c))
MenuEntries(c) == [i \in 1..NumEntries(c) |-> DisplayTextOf(RawEntries(c)[i])]
ShortcutKeys(c) == [i \in 1..NumEntries(c) |-> ShortcutOf(RawEntries(c)[i])]

\* list.index(key): 0-based position of the first entry declaring the shortcut
ShortcutIndex(c, k) ==
    (CHOOSE i \in 1..NumEntries(c) :
        /\ ShortcutKeys(c)[i] = k
        /\ \A j \in 1..(i - 1) : ShortcutKeys(c)[j] # k) - 1

IsShortcut(c, k) == \E i \in 1..NumEntries(c) : ShortcutKeys(c)[i] = k

(***************************************************************************)
(* TerminalMenu.Search                                                     *)
(***************************************************************************)
\* re.compile on a text over the characters of the model: every character but
\* an opening parenthesis is a literal, and an unclosed "(" is an re.error
Compiles(t) == \A i \in 1..Len(t) : t[i] # "("

\* A setter that gives up after the first re.error
compile_whole_text(t) ==
    IF t = NoneText \/ t = <<>> THEN NoneText
    ELSE IF Compiles(t) THEN t ELSE NoneText

\* The loop of the search_text setter: the longest non-empty prefix that compiles
RECURSIVE CompilePrefix(_)
CompilePrefix(t) ==
    IF t = NoneText \/ t = <<>> THEN NoneText
    ELSE IF Compiles(t) THEN t
    ELSE CompilePrefix(SubSeq(t, 1, Len(t) - 1))

CharEq(a, b, case_sensitive) ==
    IF case_sensitive THEN a = b ELSE LowerChar(a) = LowerChar(b)

MatchesAt(entry, pat, s, case_sensitive) ==
    /\ s + Len(pat) - 1 <= Len(entry)
    /\ \A i \in 1..Len(pat) : CharEq(entry[s + i - 1], pat[i], case_sensitive)

\* A search that finds the rightmost match
last_match(entry, pat, case_sensitive) ==
    IF \E s \in 1..Len(entry) : MatchesAt(entry, pat, s, case_sensitive)
    THEN CHOOSE s \in 1..Len(entry) :
            /\ MatchesAt(entry, pat, s, case_sensitive)
            /\ \A r \in (s + 1)..Len(entry) : ~MatchesAt(entry, pat, r, case_sensitive)
    ELSE 0

\* regex.search(entry): 1-based start of the leftmost match, 0 when there is none
FirstMatch(entry, pat, case_sensitive) ==
    IF \E s \in 1..Len(entry) : MatchesAt(entry, pat, s, case_sensitive)
    THEN CHOOSE s \in 1..Len(entry) :
            /\ MatchesAt(entry, pat, s, case_sensitive)
            /\ \A r \in 1..(s - 1) : ~MatchesAt(entry, pat, r, case_sensitive)
    ELSE 0

\* Search._update_matches: (menu index, match span) of every entry with a match
update_matches(c, regex) ==
    IF regex = NoneText THEN <<>>
    ELSE LET entries == MenuEntries(c)
             idx == [i \in 1..NumEntries(c) |-> i - 1]
             hit == SelectSeq(idx, LAMBDA i :
                        FirstMatch(entries[i + 1], regex, c.search_case_sensitive) # 0)
         IN [j \in 1..Len(hit) |->
                LET s == FirstMatch(entries[hit[j] + 1], regex, c.search_case_sensitive)
                IN [i |-> hit[j], start |-> s - 1, end |-> s - 1 + Len(regex)]]

\* The search_text setter without its callback: the new Search object
set_search_text(c, text) ==
    LET regex == CompilePrefix(text)
    IN [search_text |-> text, search_regex |-> regex, matches |-> update_matches(c, regex)]

\* Search.__bool__
SearchActive(s) == s.search_text # NoneText

\* Search.occupied_lines_count
occupied_lines_count(c, s) ==
    IF ~SearchActive(s) /\ ~c.show_search_hint THEN 0 ELSE 1

(***************************************************************************)
(* TerminalMenu.Viewport                                                   *)
(***************************************************************************)
MIN_VISIBLE_MENU_ENTRIES_COUNT == 3

\* A capacity that forgets the lines of the preview box
calculate_num_lines_without_preview(vp, lines) ==
    lines - vp.title_lines_count - vp.search_lines_count

\* Viewport._calculate_num_lines
calculate_num_lines(vp, lines) ==
    lines - vp.title_lines_count - vp.preview_lines_count - vp.search_lines_count

\* Viewport.preview_lines_count setter
set_preview_lines_count(vp, value, lines) ==
    [vp EXCEPT !.preview_lines_count =
        Min(IF value >= 3 THEN value ELSE 0,
            lines - vp.title_lines_count - MIN_VISIBLE_MENU_ENTRIES_COUNT)]

\* Viewport.update_terminal_size
update_terminal_size(vp, lines) ==
    LET num_lines == calculate_num_lines(vp, lines)
    IN IF num_lines # vp.num_lines
       THEN LET upper_index == Min(num_lines, vp.num_menu_entries) - 1
                lower_index == Max(0, upper_index - num_lines)
            IN [vp EXCEPT !.lower_index = lower_index, !.upper_index = upper_index,
                          !.num_lines = num_lines]
       ELSE vp

\* A keep_visible that puts the cursor in the middle of the viewport when it was outside
keep_visible_recentring(vp, cursor, refresh_terminal_size, lines) ==
    LET cursor_position == IF cursor = NoneInt THEN 0 ELSE cursor
        v == IF refresh_terminal_size THEN update_terminal_size(vp, lines) ELSE vp
    IN IF v.lower_index <= cursor_position /\ cursor_position <= v.upper_index
       THEN v
       ELSE LET scroll_num == cursor_position - ((v.lower_index + v.upper_index) \div 2)
            IN [v EXCEPT !.lower_index = v.lower_index + scroll_num,
                         !.upper_index = v.upper_index + scroll_num]

\* Viewport.keep_visible
keep_visible(vp, cursor, refresh_terminal_size, lines) ==
    LET cursor_position == IF cursor = NoneInt THEN 0 ELSE cursor
        v == IF refresh_terminal_size THEN update_terminal_size(vp, lines) ELSE vp
    IN IF v.lower_index <= cursor_position /\ cursor_position <= v.upper_index
       THEN v
       ELSE LET scroll_num == IF cursor_position < v.lower_index
                              THEN cursor_position - v.lower_index
                              ELSE cursor_position - v.upper_index
            IN [v EXCEPT !.lower_index = v.lower_index + scroll_num,
                         !.upper_index = v.upper_index + scroll_num]

\* Viewport.__init__
NewViewport(num_menu_entries, title_lines_count, preview_lines_count, search_lines_count, lines) ==
    LET v0 == [num_menu_entries |-> num_menu_entries,
               title_lines_count |-> title_lines_count,
               preview_lines_count |-> 0,
               search_lines_count |-> search_lines_count,
               num_lines |-> 0, lower_index |-> 0, upper_index |-> 0]
        v1 == set_preview_lines_count(v0, preview_lines_count, lines)
        v2 == [v1 EXCEPT !.num_lines = calculate_num_lines(v1, lines)]
        v3 == [v2 EXCEPT !.lower_index = 0,
                         !.upper_index = Min(v2.num_menu_entries, v2.num_lines) - 1]
    IN keep_visible(v3, NoneInt, FALSE, lines)

\* Viewport.size
ViewportSize(vp) == vp.upper_index - vp.lower_index + 1

(***************************************************************************)
(* TerminalMenu.View: each operator gives the new [view, viewport]         *)
(***************************************************************************)
\* An update_view that puts the cursor on the first line of an empty list too
update_view_cursor_on_first_line(c, s, vp, lines) ==
    LET displayed == IF SearchActive(s) /\ s.search_text # <<>>
                     THEN [j \in 1..Len(s.matches) |-> s.matches[j].i]
                     ELSE [i \in 1..NumEntries(c) |-> i - 1]
        v1 == [vp EXCEPT !.search_lines_count = occupied_lines_count(c, s)]
    IN [view |-> [displayed_index_to_menu_index |-> displayed,
                  selected_displayed_index |-> 0],
        viewport |-> keep_visible(v1, 0, TRUE, lines)]

\* An update_view that takes the match list of every open search
update_view_from_matches(c, s, vp, lines) ==
    LET displayed == IF SearchActive(s)
                     THEN [j \in 1..Len(s.matches) |-> s.matches[j].i]
                     ELSE [i \in 1..NumEntries(c) |-> i - 1]
        sel == IF displayed # <<>> THEN 0 ELSE NoneInt
        v1 == [vp EXCEPT !.search_lines_count = occupied_lines_count(c, s)]
    IN [view |-> [displayed_index_to_menu_index |-> displayed,
                  selected_displayed_index |-> sel],
        viewport |-> keep_visible(v1, sel, TRUE, lines)]

\* View.update_view
update_view(c, s, vp, lines) ==
    LET displayed == IF SearchActive(s) /\ s.search_text # <<>>
                     THEN [j \in 1..Len(s.matches) |-> s.matches[j].i]
                     ELSE [i \in 1..NumEntries(c) |-> i - 1]
        sel == IF displayed # <<>> THEN 0 ELSE NoneInt
        v1 == [vp EXCEPT !.search_lines_count = occupied_lines_count(c, s)]
    IN [view |-> [displayed_index_to_menu_index |-> displayed,
                  selected_displayed_index |-> sel],
        viewport |-> keep_visible(v1, sel, TRUE, lines)]

\* A cursor that stops at the last entry whatever cycle_cursor says
increment_without_cycling(c, v, vp, lines) ==
    IF v.selected_displayed_index # NoneInt
    THEN LET sel == Min(v.selected_displayed_index + 1,
                        Len(v.displayed_index_to_menu_index) - 1)
         IN [view |-> [v EXCEPT !.selected_displayed_index = sel],
             viewport |-> keep_visible(vp, sel, TRUE, lines)]
    ELSE [view |-> v, viewport |-> vp]

\* View.increment_selected_index
increment_selected_index(c, v, vp, lines) ==
    IF v.selected_displayed_index # NoneInt
    THEN LET sel == IF v.selected_displayed_index + 1 < Len(v.displayed_index_to_menu_index)
                    THEN v.selected_displayed_index + 1
                    ELSE IF c.cycle_cursor THEN 0 ELSE v.selected_displayed_index
         IN [view |-> [v EXCEPT !.selected_displayed_index = sel],
             viewport |-> keep_visible(vp, sel, TRUE, lines)]
    ELSE [view |-> v, viewport |-> vp]

\* View.decrement_selected_index
decrement_selected_index(c, v, vp, lines) ==
    IF v.selected_displayed_index # NoneInt
    THEN LET sel == IF v.selected_displayed_index > 0
                    THEN v.selected_displayed_index - 1
                    ELSE IF c.cycle_cursor THEN Len(v.displayed_index_to_menu_index) - 1
                    ELSE v.selected_displayed_index
         IN [view |-> [v EXCEPT !.selected_displayed_index = sel],
             viewport |-> keep_visible(vp, sel, TRUE, lines)]
    ELSE [view |-> v, viewport |-> vp]

\* A getter that gives the position in the displayed list, not the menu index
selected_displayed_position(v) == v.selected_displayed_index

\* View.selected_index (getter): the menu index under the cursor
selected_index(v) ==
    IF v.selected_displayed_index # NoneInt
    THEN v.displayed_index_to_menu_index[v.selected_displayed_index + 1]
    ELSE NoneInt

\* View.selected_index (setter); the callers of the model pass a displayed entry
set_selected_index(v, vp, value, lines) ==
    LET sel == (CHOOSE d \in 1..Len(v.displayed_index_to_menu_index) :
                    /\ v.displayed_index_to_menu_index[d] = value
                    /\ \A e \in 1..(d - 1) : v.displayed_index_to_menu_index[e] # value) - 1
    IN [view |-> [v EXCEPT !.selected_displayed_index = sel],
        viewport |-> keep_visible(vp, sel, TRUE, lines)]

(***************************************************************************)
(* TerminalMenu._paint_menu, in two steps: the viewport refresh at its     *)
(* start, and the output with the bookkeeping at its end                   *)
(***************************************************************************)
\* self._viewport.keep_visible(self._view.selected_displayed_index)
\* preceded, when a preview provider is set, by the preview_lines_count assignment
paint_begin(c, v, vp, lines) ==
    LET v1 == IF c.preview # "none"
              THEN set_preview_lines_count(vp, (c.preview_percent * lines) \div 100, lines)
              ELSE vp
    IN keep_visible(v1, v.selected_displayed_index, TRUE, lines)

\* What get_preview_string can do in a paint: print_preview skips it without a provider
\* or without room for the box; it gives None when nothing is highlighted; a command
\* prints a text, exits non-zero or cannot be started; a function returns a text or raises
PreviewResults(c, v, vp) ==
    IF c.preview = "none" \/ vp.preview_lines_count < 3 THEN {"skipped"}
    ELSE IF selected_index(v) = NoneInt THEN {"none"}
    ELSE IF c.preview = "command" THEN {"text", "nonzero_exit", "cannot_run"}
    ELSE {"text", "raises"}

\* The results that leave print_preview as an exception: only CalledProcessError is
\* turned into PreviewCommandFailedError and caught
PreviewRaises(r) == r \in {"cannot_run", "raises"}

PreviewException(r) == IF r = "cannot_run" THEN "FileNotFoundError" ELSE "PreviewFunctionError"

\* The lines of the preview string: one line of provider output, or the three lines of
\* "The preview command failed with error message:", "", message
PreviewStringLines(r) == IF r = "nonzero_exit" THEN 3 ELSE 1

\* print_preview: the number of lines the box takes
print_preview(r, preview_max_num_lines) ==
    IF r \in {"skipped", "none"} THEN 0
    ELSE IF PreviewStringLines(r) > preview_max_num_lines - 2 THEN preview_max_num_lines
    ELSE PreviewStringLines(r) + 2

\* displayed_menu_height: print_menu_entries() + print_search_line()
displayed_menu_height(c, s, vp) ==
    (ViewportSize(vp) - 1) + (IF SearchActive(s) \/ c.show_search_hint THEN 1 ELSE 0)

\* delete_old_menu_lines: the number of delete_line codes written and the row they are
\* written on, counted from the row of the first entry (displayed_menu_height is the
\* number of frame lines below that row)
delete_old_menu_lines(previous_displayed_menu_height, height) ==
    IF previous_displayed_menu_height # NoneInt /\ previous_displayed_menu_height > height
    THEN [count |-> previous_displayed_menu_height - height, row |-> height + 1]
    ELSE [count |-> 0, row |-> 0]

\* n * string: a count below zero writes nothing
Times(n) == IF n > 0 THEN n ELSE 0

\* _paint_menu: the rows the terminal cursor has gone down, less the rows it has gone
\* up, in the writes of one complete paint. Every "\n" and cursor_down is a row down,
\* every cursor_up a row up; the texts between them are cut to the width of the
\* terminal and move the cursor on its row only.
paint_menu_rows(c, s, v, vp, r) ==
    LET size == ViewportSize(vp)
        occupied == occupied_lines_count(c, s)
        \* print_menu_entries: the title, the entries of the view that lie in the
        \* viewport, the filler lines, and the way back up
        title == IF c.title_lines > 0
                 THEN (c.title_lines - 1) + 1 - Times(c.title_lines) ELSE 0
        shown == {d \in 0..(Len(v.displayed_index_to_menu_index) - 1) :
                      vp.lower_index <= d /\ d <= vp.upper_index}
        last == IF shown = {} THEN 0 - 1
                ELSE CHOOSE d \in shown : \A e \in shown : e <= d
        empty_menu_lines == vp.upper_index - last
        entries == Cardinality({d \in shown : d < vp.upper_index})
                   + Times(Times(empty_menu_lines - 1))
                   - Times(size - 1)
        \* print_search_line
        search_line == IF SearchActive(s) \/ c.show_search_hint
                       THEN Times(size) - Times(size) ELSE 0
        \* print_preview: down to the box, its top line, its text lines, and back up
        preview_num_lines == print_preview(r, vp.preview_lines_count)
        preview == IF c.preview = "none" \/ vp.preview_lines_count < 3 THEN 0
                   ELSE Times(size + occupied - 1)
                        + (IF r # "none" THEN 1 + 1 + (preview_num_lines - 2) ELSE 0)
                        - Times(size + occupied + preview_num_lines - 1)
        height == displayed_menu_height(c, s, vp) + preview_num_lines
        \* delete_old_menu_lines
        deleted == Times(height + 1) - Times(height + 1)
        \* position_cursor
        position == IF v.selected_displayed_index = NoneInt THEN 0
                    ELSE Times(size - 1) - Times(size - 1)
                         + Times(v.selected_displayed_index - vp.lower_index)
                         - Times(v.selected_displayed_index - vp.lower_index)
    IN title + entries + search_line + preview + deleted + position

(***************************************************************************)
(* The key tables of show()                                                *)
(***************************************************************************)
Range(f) == {f[i] : i \in DOMAIN f}

menu_action_to_keys(c) ==
    [menu_up |-> {"up", "ctrl-k", "k"},
     menu_down |-> {"down", "ctrl-j", "j"},
     accept |-> Range(DEFAULT_ACCEPT_KEYS),
     quit |-> {"escape", "q"},
     search_start |-> {c.search_key},
     backspace |-> {"backspace"}]

remove_letter_keys(m) == [a \in DOMAIN m |-> m[a] \ AsciiLowercase]

\* The key as show() dispatches it: lowercased unless searching or no search key is set
DispatchedKey(c, s, k) ==
    IF SearchActive(s) \/ c.search_key = NoneKey THEN k ELSE LowerKey(k)

\* A chain whose quit branch does not look at the search
Branch_quit_in_search(c, s, k) ==
    LET key == DispatchedKey(c, s, k)
        keys == IF SearchActive(s) \/ c.search_key = NoneKey
                THEN remove_letter_keys(menu_action_to_keys(c))
                ELSE menu_action_to_keys(c)
    IN IF c.search_key # NoneKey /\ ~SearchActive(s) /\ IsShortcut(c, key) THEN "shortcut"
       ELSE IF key \in keys.menu_up THEN "menu_up"
       ELSE IF key \in keys.menu_down THEN "menu_down"
       ELSE IF key \in keys.accept THEN "accept"
       ELSE IF key \in keys.quit THEN "quit"
       ELSE IF ~SearchActive(s)
            THEN (IF key \in keys.search_start \/ (c.search_key = NoneKey /\ key = DEFAULT_SEARCH_KEY)
                  THEN "search_open"
                  ELSE IF c.search_key = NoneKey THEN "search_open_with_key" ELSE "ignored")
       ELSE IF key = "backspace"
            THEN (IF s.search_text # <<>> THEN "search_delete" ELSE "search_leave")
       ELSE IF key \notin keys.search_start \/ s.search_text # <<>> THEN "search_append"
       ELSE "ignored"

\* The branch of the if/elif chain of show() that a key takes
Branch(c, s, k) ==
    LET key == DispatchedKey(c, s, k)
        keys == IF SearchActive(s) \/ c.search_key = NoneKey
                THEN remove_letter_keys(menu_action_to_keys(c))
                ELSE menu_action_to_keys(c)
    IN IF c.search_key # NoneKey /\ ~SearchActive(s) /\ IsShortcut(c, key) THEN "shortcut"
       ELSE IF key \in keys.menu_up THEN "menu_up"
       ELSE IF key \in keys.menu_down THEN "menu_down"
       ELSE IF key \in keys.accept THEN "accept"
       ELSE IF key \in keys.quit THEN (IF ~SearchActive(s) THEN "quit" ELSE "search_clear")
       ELSE IF ~SearchActive(s)
            THEN (IF key \in keys.search_start \/ (c.search_key = NoneKey /\ key = DEFAULT_SEARCH_KEY)
                  THEN "search_open"
                  ELSE IF c.search_key = NoneKey THEN "search_open_with_key" ELSE "ignored")
       ELSE IF key = "backspace"
            THEN (IF s.search_text # <<>> THEN "search_delete" ELSE "search_leave")
       ELSE IF key \notin keys.search_start \/ s.search_text # <<>> THEN "search_append"
       ELSE "ignored"

\* The search text a branch assigns
NewSearchText(c, s, k, branch) ==
    CASE branch = "search_clear" -> NoneText
      [] branch = "search_open" -> <<>>
      [] branch = "search_open_with_key" -> KeyChars(DispatchedKey(c, s, k))
      [] branch = "search_delete" -> SubSeq(s.search_text, 1, Len(s.search_text) - 1)
      [] branch = "search_leave" -> NoneText
      [] branch = "search_append" -> s.search_text \o KeyChars(DispatchedKey(c, s, k))
      [] OTHER -> s.search_text

SearchBranches ==
    {"search_clear", "search_open", "search_open_with_key", "search_delete",
     "search_leave", "search_append"}

BreakBranches(c) == {"accept", "quit"} \cup (IF c.exit_on_shortcut THEN {"shortcut"} ELSE {})

(***************************************************************************)
(* The state machine                                                       *)
(***************************************************************************)
NewMenu ==
    [previous_displayed_menu_height |-> NoneInt,
     reading_next_key |-> FALSE,
     paint_before_next_read |-> FALSE,
     chosen_accept_key |-> NoneKey,
     chosen_menu_index |-> NoneInt]

\* TerminalMenu.__init__ on a terminal in its normal state
InitOf(c, h) ==
        LET s0 == set_search_text(c, NoneText)
            uv == update_view(c, s0, NewViewport(NumEntries(c), c.title_lines, 0, 0, h), h)
        IN /\ cfg = c
           /\ termLines = h
           /\ tty = [mode |-> "cooked", old_term |-> "None", cursor_visible |-> TRUE,
                     application_mode |-> FALSE, open |-> FALSE, sigwinch |-> FALSE]
           /\ search = s0
           /\ view = uv.view
           /\ viewport = uv.viewport
           /\ menu = NewMenu
           /\ pc = "idle"
           /\ hpaints = <<>>
           /\ next_key = NoneKey
           /\ menu_was_interrupted = FALSE
           /\ exc = "None"
           /\ outcome = [kind |-> "none", value |-> NoneInt, exc |-> "None"]
           /\ endReason = "none"
           /\ downs = NoneInt
           /\ unserved = FALSE

\* No command-line run and no multi-select menu
NoProc == [pc |-> "none"]
NoMulti == [pc |-> "none"]
\* The tables of the class are not looked at
NoCls == [pc |-> "none"]

Init ==
    /\ \E c \in Configs, h \in TermHeights : InitOf(c, h)
    /\ proc = NoProc
    /\ multi = NoMulti
    /\ cls = NoCls
    /\ instances = <<>>

\* A menu constructed with a preview provider
InitPreview ==
    /\ \E c \in PreviewConfigs, h \in PreviewTermHeights : InitOf(c, h)
    /\ proc = NoProc
    /\ multi = NoMulti
    /\ cls = NoCls
    /\ instances = <<>>

\* The main flow runs only while no signal handler frame is on top of it
Main == hpaints = <<>>

\* show(): _init_term up to tcsetattr
ShowInitTerm ==
    /\ pc = "idle" /\ Main
    /\ tty' = [tty EXCEPT !.open = TRUE, !.old_term = tty.mode, !.mode = "raw"]
    /\ pc' = "init_term"
    /\ outcome' = [kind |-> "none", value |-> NoneInt, exc |-> "None"]
    /\ endReason' = "none"
    /\ exc' = "None"
    /\ downs' = IF view.selected_displayed_index = 0 /\ ~SearchActive(search) THEN 0 ELSE NoneInt
    /\ unserved' = FALSE
    /\ UNCHANGED <<proc, multi, cls, instances, cfg, termLines, search, view, viewport, menu, hpaints, next_key,
                   menu_was_interrupted>>

\* show(): the writes of _init_term and the lines before the try statement
ShowInitWrite ==
    /\ pc = "init_term" /\ Main
    /\ tty' = [tty EXCEPT !.application_mode = TRUE, !.cursor_visible = FALSE]
    /\ menu_was_interrupted' = FALSE
    /\ pc' = "try"
    /\ UNCHANGED <<proc, multi, cls, instances, cfg, termLines, search, view, viewport, menu, hpaints, next_key, exc,
                   outcome, endReason, downs, unserved>>

\* show(): init_signal_handling() and the key table, first statements of the try block
InitSignalHandling ==
    /\ pc = "try" /\ Main
    /\ tty' = [tty EXCEPT !.sigwinch = TRUE]
    /\ pc' = "paint"
    /\ UNCHANGED <<proc, multi, cls, instances, cfg, termLines, search, view, viewport, menu, hpaints, next_key,
                   menu_was_interrupted, exc, outcome, endReason, downs, unserved>>

\* The loop's self._paint_menu(): start
LoopPaintBegin ==
    /\ pc = "paint" /\ Main
    /\ viewport' = paint_begin(cfg, view, viewport, termLines)
    /\ unserved' = FALSE
    /\ next_key' = NoneKey
    /\ pc' = "paint_draw"
    /\ UNCHANGED <<proc, multi, cls, instances, cfg, termLines, tty, search, view, menu, hpaints,
                   menu_was_interrupted, exc, outcome, endReason, downs>>

\* The loop's self._paint_menu(): end
LoopPaintEnd ==
    /\ pc = "paint_draw" /\ Main
    /\ \E r \in PreviewResults(cfg, view, viewport) :
        IF PreviewRaises(r)
        THEN /\ exc' = PreviewException(r)
             /\ endReason' = "exception"
             /\ pc' = "finally"
             /\ unserved' = FALSE
             /\ UNCHANGED menu
        ELSE /\ menu' = [menu EXCEPT !.previous_displayed_menu_height =
                             displayed_menu_height(cfg, search, viewport)
                             + print_preview(r, viewport.preview_lines_count)]
             /\ pc' = "read"
             /\ UNCHANGED <<exc, endReason, unserved>>
    /\ UNCHANGED <<proc, multi, cls, instances, cfg, termLines, tty, search, view, viewport, hpaints, next_key,
                   menu_was_interrupted, outcome, downs>>

\* _read_next_key: set the flag and test for a deferred paint
ReadEnter ==
    /\ pc = "read" /\ Main
    /\ menu' = [menu EXCEPT !.reading_next_key = TRUE]
    /\ pc' = IF menu.paint_before_next_read THEN "read_paint" ELSE "read_block"
    /\ UNCHANGED <<proc, multi, cls, instances, cfg, termLines, tty, search, view, viewport, hpaints, next_key,
                   menu_was_interrupted, exc, outcome, endReason, downs, unserved>>

\* _read_next_key: the deferred self._paint_menu(), start
ReadPaintBegin ==
    /\ pc = "read_paint" /\ Main
    /\ viewport' = paint_begin(cfg, view, viewport, termLines)
    /\ unserved' = FALSE
    /\ pc' = "read_paint_draw"
    /\ UNCHANGED <<proc, multi, cls, instances, cfg, termLines, tty, search, view, menu, hpaints, next_key,
                   menu_was_interrupted, exc, outcome, endReason, downs>>

\* _read_next_key: the deferred self._paint_menu(), end, and the flag's reset
ReadPaintEnd ==
    /\ pc = "read_paint_draw" /\ Main
    /\ \E r \in PreviewResults(cfg, view, viewport) :
        IF PreviewRaises(r)
        THEN /\ exc' = PreviewException(r)
             /\ endReason' = "exception"
             /\ pc' = "finally"
             /\ unserved' = FALSE
             /\ UNCHANGED menu
        ELSE /\ menu' = [menu EXCEPT !.previous_displayed_menu_height =
                             displayed_menu_height(cfg, search, viewport)
                             + print_preview(r, viewport.preview_lines_count),
                                     !.paint_before_next_read = FALSE]
             /\ pc' = "read_block"
             /\ UNCHANGED <<exc, endReason, unserved>>
    /\ UNCHANGED <<proc, multi, cls, instances, cfg, termLines, tty, search, view, viewport, hpaints, next_key,
                   menu_was_interrupted, outcome, downs>>

\* _read_next_key: os.read returns a key; bytes outside ASCII make decode("ascii") raise
ReadKey ==
    /\ pc = "read_block" /\ Main
    /\ \E k \in KeysAt(search.search_text) :
        /\ IF k = NonAsciiKey
           THEN /\ exc' = "UnicodeDecodeError"
                /\ endReason' = "exception"
                /\ pc' = "finally"
                /\ unserved' = FALSE
                /\ UNCHANGED <<menu, next_key>>
           ELSE /\ menu' = [menu EXCEPT !.reading_next_key = FALSE]
                /\ next_key' = k
                /\ pc' = "dispatch"
                /\ UNCHANGED <<exc, endReason, unserved>>
    /\ UNCHANGED <<proc, multi, cls, instances, cfg, termLines, tty, search, view, viewport, hpaints,
                   menu_was_interrupted, outcome, downs>>

\* The view after a branch of the if/elif chain
DispatchView(c, s, v, vp, k, lines) ==
    LET branch == Branch(c, s, k)
    IN CASE branch = "shortcut" ->
                set_selected_index(v, vp, ShortcutIndex(c, DispatchedKey(c, s, k)), lines)
         [] branch = "menu_up" -> decrement_selected_index(c, v, vp, lines)
         [] branch = "menu_down" -> increment_selected_index(c, v, vp, lines)
         [] branch \in SearchBranches ->
                update_view(c, set_search_text(c, NewSearchText(c, s, k, branch)), vp, lines)
         [] OTHER -> [view |-> v, viewport |-> vp]

\* show(): the if/elif chain on next_key, up to the next paint or the break
Dispatch ==
    /\ pc = "dispatch" /\ Main
    /\ LET branch == Branch(cfg, search, next_key)
           vv == DispatchView(cfg, search, view, viewport, next_key, termLines)
       IN /\ search' = IF branch \in SearchBranches
                       THEN set_search_text(cfg, NewSearchText(cfg, search, next_key, branch))
                       ELSE search
          /\ view' = vv.view
          /\ viewport' = vv.viewport
          /\ menu' = IF branch = "accept"
                     THEN [menu EXCEPT !.chosen_accept_key =
                                           DispatchedKey(cfg, search, next_key)]
                     ELSE menu
          /\ menu_was_interrupted' = IF branch = "quit" THEN TRUE ELSE menu_was_interrupted
          /\ pc' = IF branch \in BreakBranches(cfg) THEN "finally" ELSE "paint"
          /\ unserved' = IF branch \in BreakBranches(cfg) THEN FALSE ELSE unserved
          /\ endReason' = IF branch \in BreakBranches(cfg) THEN branch ELSE endReason
          /\ downs' = IF branch = "accept" THEN downs
                      ELSE IF next_key = "down" /\ downs # NoneInt /\ downs < MaxDowns
                           THEN downs + 1
                      ELSE NoneInt
    /\ UNCHANGED <<proc, multi, cls, instances, cfg, termLines, tty, hpaints, next_key, exc, outcome>>

\* finally: reset_signal_handling()
ResetSignalHandling ==
    /\ pc = "finally" /\ Main
    /\ tty' = [tty EXCEPT !.sigwinch = FALSE]
    /\ next_key' = NoneKey
    /\ pc' = "clear_menu"
    /\ UNCHANGED <<proc, multi, cls, instances, cfg, termLines, search, view, viewport, menu, hpaints,
                   menu_was_interrupted, exc, outcome, endReason, downs, unserved>>

\* finally: self._clear_menu(), which asserts that a frame was painted
ClearMenu ==
    /\ pc = "clear_menu" /\ Main
    /\ IF menu.previous_displayed_menu_height = NoneInt
       THEN /\ pc' = "idle"
            /\ outcome' = [kind |-> "raised", value |-> NoneInt, exc |-> "AssertionError"]
            /\ exc' = "None"
            /\ menu_was_interrupted' = FALSE
       ELSE /\ pc' = "reset_term"
            /\ UNCHANGED <<outcome, exc, menu_was_interrupted>>
    /\ UNCHANGED <<proc, multi, cls, instances, cfg, termLines, tty, search, view, viewport, menu, hpaints, next_key,
                   endReason, downs, unserved>>

\* finally: self._reset_term(); a pending exception then leaves show()
ResetTerm ==
    /\ pc = "reset_term" /\ Main
    /\ tty' = [tty EXCEPT !.mode = tty.old_term, !.cursor_visible = TRUE,
                          !.application_mode = FALSE, !.open = FALSE]
    /\ IF exc # "None"
       THEN /\ pc' = "idle"
            /\ outcome' = [kind |-> "raised", value |-> NoneInt, exc |-> exc]
            /\ exc' = "None"
            /\ menu_was_interrupted' = FALSE
       ELSE /\ pc' = "return"
            /\ UNCHANGED <<outcome, exc, menu_was_interrupted>>
    /\ UNCHANGED <<proc, multi, cls, instances, cfg, termLines, search, view, viewport, menu, hpaints, next_key,
                   endReason, downs, unserved>>

\* show(): the two lines after the try statement
Return ==
    /\ pc = "return" /\ Main
    /\ LET chosen == IF ~menu_was_interrupted THEN selected_index(view) ELSE NoneInt
       IN /\ menu' = [menu EXCEPT !.chosen_menu_index = chosen]
          /\ outcome' = [kind |-> "returned", value |-> chosen, exc |-> "None"]
    /\ pc' = "idle"
    /\ menu_was_interrupted' = FALSE
    /\ UNCHANGED <<proc, multi, cls, instances, cfg, termLines, tty, search, view, viewport, hpaints, next_key,
                   exc, endReason, downs, unserved>>

(***************************************************************************)
(* Signals                                                                 *)
(***************************************************************************)
\* The positions of the main flow that lie inside the try block of show()
TryPcs ==
    {"try", "paint", "paint_draw", "read", "read_paint", "read_paint_draw",
     "read_block", "dispatch"}

\* A handler that leaves no flag when no key read is under way
handle_sigwinch_without_flag(m, hp) ==
    IF m.reading_next_key
    THEN [menu |-> m, hpaints |-> Append(hp, "called")]
    ELSE [menu |-> m, hpaints |-> hp]

\* handle_sigwinch: paint at once when a key read is under way, else leave a flag
handle_sigwinch(m, hp) ==
    IF m.reading_next_key
    THEN [menu |-> m, hpaints |-> Append(hp, "called")]
    ELSE [menu |-> [m EXCEPT !.paint_before_next_read = TRUE], hpaints |-> hp]

\* The terminal is resized; SIGWINCH runs the handler where one is installed
\* (SIG_DFL ignores the signal)
Resize ==
    /\ \E h \in Heights(cfg) \ {termLines} : termLines' = h
    /\ LET r == IF tty.sigwinch THEN handle_sigwinch(menu, hpaints)
                ELSE [menu |-> menu, hpaints |-> hpaints]
       IN /\ Len(r.hpaints) <= MaxNest
          /\ menu' = r.menu
          /\ hpaints' = r.hpaints
    /\ unserved' = IF pc \in TryPcs THEN TRUE ELSE unserved
    /\ UNCHANGED <<proc, multi, cls, instances, cfg, tty, search, view, viewport, pc, next_key, menu_was_interrupted,
                   exc, outcome, endReason, downs>>

\* handle_sigwinch's self._paint_menu(): start
HandlerPaintBegin ==
    /\ hpaints # <<>>
    /\ hpaints[Len(hpaints)] = "called"
    /\ viewport' = paint_begin(cfg, view, viewport, termLines)
    /\ hpaints' = [hpaints EXCEPT ![Len(hpaints)] = "draw"]
    /\ unserved' = FALSE
    /\ UNCHANGED <<proc, multi, cls, instances, cfg, termLines, tty, search, view, menu, pc, next_key, menu_was_interrupted,
                   exc, outcome, endReason, downs>>

\* handle_sigwinch's self._paint_menu(): end; the handler returns
HandlerPaintEnd ==
    /\ hpaints # <<>>
    /\ hpaints[Len(hpaints)] = "draw"
    /\ \E r \in PreviewResults(cfg, view, viewport) :
        IF PreviewRaises(r)
        THEN \* the exception unwinds the handler frames into the main flow
             /\ hpaints' = <<>>
             /\ next_key' = NoneKey
             /\ UNCHANGED <<menu, menu_was_interrupted>>
             /\ IF pc \in TryPcs
                THEN /\ exc' = PreviewException(r)
                     /\ endReason' = "exception"
                     /\ pc' = "finally"
                     /\ unserved' = FALSE
                     /\ UNCHANGED outcome
                ELSE /\ pc' = "idle"
                     /\ outcome' = [kind |-> "raised", value |-> NoneInt,
                                    exc |-> PreviewException(r)]
                     /\ exc' = "None"
                     /\ UNCHANGED <<endReason, unserved>>
        ELSE /\ menu' = [menu EXCEPT !.previous_displayed_menu_height =
                             displayed_menu_height(cfg, search, viewport)
                             + print_preview(r, viewport.preview_lines_count)]
             /\ hpaints' = SubSeq(hpaints, 1, Len(hpaints) - 1)
             /\ UNCHANGED <<pc, next_key, menu_was_interrupted, exc, outcome, endReason,
                            unserved>>
    /\ UNCHANGED <<proc, multi, cls, instances, cfg, termLines, tty, search, view, viewport, downs>>

\* SIGINT during show(): KeyboardInterrupt is raised in the running frame, unwinds any
\* handler frames, and is caught only by the except clause of the try block
Interrupt ==
    /\ pc # "idle"
    /\ hpaints' = <<>>
    /\ IF pc \in TryPcs
       THEN /\ menu_was_interrupted' = TRUE
            /\ pc' = "finally"
            /\ endReason' = "interrupt"
            /\ exc' = "None"
            /\ UNCHANGED outcome
       ELSE /\ pc' = "idle"
            /\ outcome' = [kind |-> "raised", value |-> NoneInt, exc |-> "KeyboardInterrupt"]
            /\ exc' = "None"
            /\ menu_was_interrupted' = FALSE
            /\ UNCHANGED endReason
    /\ next_key' = NoneKey
    /\ unserved' = FALSE
    /\ UNCHANGED <<proc, multi, cls, instances, cfg, termLines, tty, search, view, viewport, menu, downs>>

Next ==
    \/ ShowInitTerm
    \/ ShowInitWrite
    \/ InitSignalHandling
    \/ LoopPaintBegin
    \/ LoopPaintEnd
    \/ ReadEnter
    \/ ReadPaintBegin
    \/ ReadPaintEnd
    \/ ReadKey
    \/ Dispatch
    \/ ResetSignalHandling
    \/ ClearMenu
    \/ ResetTerm
    \/ Return
    \/ Resize
    \/ HandlerPaintBegin
    \/ HandlerPaintEnd
    \/ Interrupt

Spec == Init /\ [][Next]_vars

SpecPreview == InitPreview /\ [][Next]_vars

\* A menu constructed with a title
InitTitle ==
    /\ \E c \in TitleConfigs, h \in TermHeights : InitOf(c, h)
    /\ proc = NoProc
    /\ multi = NoMulti
    /\ cls = NoCls
    /\ instances = <<>>

SpecTitle == InitTitle /\ [][Next]_vars

(***************************************************************************)
(* The command-line program: main()                                        *)
(***************************************************************************)
\* The keys of _codename_to_capname: the names a style option may hold
KnownStyles ==
    {"bg_black", "bg_blue", "bg_cyan", "bg_gray", "bg_green", "bg_purple", "bg_red",
     "bg_yellow", "bold", "clear", "colors", "cursor_down", "cursor_invisible",
     "cursor_up", "cursor_visible", "delete_line", "down", "enter_application_mode",
     "exit_application_mode", "fg_black", "fg_blue", "fg_cyan", "fg_gray", "fg_green",
     "fg_purple", "fg_red", "fg_yellow", "italics", "reset_attributes", "standout",
     "underline", "up"}

\* Values given to a style option on the command line
StyleTuples == {<<"bold">>, <<"bogus">>, <<"nonsense", "fg_red", "bogus">>}

\* The five style options in the order _check_for_valid_styles visits them: cursor,
\* highlight, search highlight, shortcut key, shortcut parentheses
StyleOptions ==
    {<<a, b, c, d, e>> : a \in StyleTuples, b \in {<<"standout">>, <<"blink">>},
                         c \in {<<"fg_black", "bg_yellow", "bold">>, <<"dim">>},
                         d \in {<<"fg_blue">>, <<"fg_orange">>},
                         e \in {<<"fg_gray">>, <<"bg_pink">>}}

\* What a query of the terminal database with tput does: it prints the value, exits
\* with 1 (capability missing), exits with another status, or tput cannot be run
TerminfoOutcomes == {"ok", "exit_1", "exit_other", "no_tput"}

\* The numbers of entries given on the command line
EntryCounts == {0, 1, 3, MaxEntries}

RECURSIVE Flatten(_)
Flatten(tuples) ==
    IF tuples = <<>> THEN <<>> ELSE Head(tuples) \o Flatten(Tail(tuples))

IsUnknownStyle(style) == style \notin KnownStyles

\* A check that reports the first invalid style only
check_first_invalid_style(styles) ==
    LET invalid_styles == SelectSeq(Flatten(styles), IsUnknownStyle)
    IN SubSeq(invalid_styles, 1, Min(1, Len(invalid_styles)))

\* _check_for_valid_styles: the invalid styles in the order they are met
check_for_valid_styles(styles) == SelectSeq(Flatten(styles), IsUnknownStyle)

\* _num_lines() of the Viewport constructor: int(tput lines); the exception it raises
num_lines_exception(terminfo) ==
    CASE terminfo = "ok" -> "None"
      [] terminfo = "exit_1" -> "ValueError"
      [] terminfo = "exit_other" -> "CalledProcessError"
      [] terminfo = "no_tput" -> "FileNotFoundError"

\* TerminalMenu.__init__: the exception it raises ("None": the object is built) and the
\* styles the exception names. The Viewport asks for the terminal height before the
\* styles are checked.
TerminalMenuInit(styles, terminfo) ==
    IF num_lines_exception(terminfo) # "None"
    THEN [exc |-> num_lines_exception(terminfo), styles |-> <<>>]
    ELSE IF check_for_valid_styles(styles) # <<>>
    THEN [exc |-> "InvalidStyleError", styles |-> check_for_valid_styles(styles)]
    ELSE [exc |-> "None", styles |-> <<>>]

\* sys.exit(status) as the parent process sees it
WaitStatus(status) == status % 256

\* sys.exit(...) / an uncaught exception: the interpreter ends with a traceback and status 1
Exited(p, status, message) ==
    [p EXCEPT !.pc = "exited", !.status = status, !.message = message]

Uncaught(p, e) ==
    [p EXCEPT !.pc = "exited", !.status = 1, !.traceback = e]

InitMain ==
    /\ InitOf(CHOOSE c \in Configs : TRUE, CHOOSE h \in TermHeights : TRUE)
    /\ multi = NoMulti
    /\ cls = NoCls
    /\ instances = <<>>
    /\ \E ok \in BOOLEAN, v \in BOOLEAN, n \in EntryCounts, st \in StyleOptions,
          t \in TerminfoOutcomes :
          proc = [pc |-> "parse", argv_ok |-> ok, print_version |-> v, entries |-> n,
                  styles |-> st, terminfo |-> t, construct |-> [exc |-> "None", styles |-> <<>>],
                  chosen_entry |-> NoneInt, status |-> NoneInt, message |-> "None",
                  traceback |-> "None"]

\* parse_arguments() and the version switch
MainParse ==
    /\ proc.pc = "parse"
    /\ proc' = IF ~proc.argv_ok THEN Exited(proc, 0, "usage")
               ELSE IF ~proc.print_version /\ proc.entries = 0
               THEN Exited(proc, 0, "No menu entries given!")
               ELSE IF proc.print_version THEN Exited(proc, 0, "version")
               ELSE [proc EXCEPT !.pc = "construct"]
    /\ UNCHANGED <<menuVars, multi, cls, instances>>

\* TerminalMenu(...) inside try / except InvalidStyleError
MainConstruct ==
    /\ proc.pc = "construct"
    /\ LET r == TerminalMenuInit(proc.styles, proc.terminfo)
           p == [proc EXCEPT !.construct = r]
       IN proc' = IF r.exc = "None" THEN [p EXCEPT !.pc = "show"]
                  ELSE IF r.exc = "InvalidStyleError" THEN Exited(p, 0, "InvalidStyleError")
                  ELSE Uncaught(p, r.exc)
    /\ UNCHANGED <<menuVars, multi, cls, instances>>

\* chosen_entry = terminal_menu.show(): None or the index of an entry
MainShow ==
    /\ proc.pc = "show"
    /\ \E i \in {NoneInt} \cup (0 .. proc.entries - 1) :
          proc' = [proc EXCEPT !.pc = "exit", !.chosen_entry = i]
    /\ UNCHANGED <<menuVars, multi, cls, instances>>

\* sys.exit(0) / sys.exit(chosen_entry + 1)
MainExit ==
    /\ proc.pc = "exit"
    /\ proc' = IF proc.chosen_entry = NoneInt THEN Exited(proc, 0, "None")
               ELSE Exited(proc, proc.chosen_entry + 1, "None")
    /\ UNCHANGED <<menuVars, multi, cls, instances>>

NextMain ==
    \/ MainParse
    \/ MainConstruct
    \/ MainShow
    \/ MainExit

SpecMain == InitMain /\ [][NextMain]_vars

(***************************************************************************)
(* The Viewport object on its own: every call sequence of its methods      *)
(***************************************************************************)
ViewportConfigs ==
    [entries: 1..4, search_key: {DEFAULT_SEARCH_KEY}, exit_on_shortcut: {TRUE},
     cycle_cursor: {TRUE}, search_case_sensitive: {FALSE}, show_search_hint: {FALSE},
     title_lines: 0..2, preview: {"none"}, preview_percent: {25}]

ViewportHeights == 1..MaxHeight

\* Values handed to the preview_lines_count setter
PreviewLineCounts == {0, 2, 3, 4}

InitViewport ==
    /\ \E c \in ViewportConfigs, h \in ViewportHeights : InitOf(c, h)
    /\ proc = NoProc
    /\ multi = NoMulti
    /\ cls = NoCls
    /\ instances = <<>>

\* The terminal gets another height
ViewportResize ==
    /\ \E h \in ViewportHeights \ {termLines} : termLines' = h
    /\ UNCHANGED <<cfg, tty, search, view, viewport, menu, pc, hpaints, next_key,
                   menu_was_interrupted, exc, outcome, endReason, downs, unserved,
                   proc, multi, cls, instances>>

\* viewport.search_lines_count = value
SetSearchLinesCount ==
    /\ \E value \in {0, 1} \ {viewport.search_lines_count} :
          viewport' = [viewport EXCEPT !.search_lines_count = value]
    /\ UNCHANGED <<cfg, termLines, tty, search, view, menu, pc, hpaints, next_key,
                   menu_was_interrupted, exc, outcome, endReason, downs, unserved,
                   proc, multi, cls, instances>>

\* viewport.preview_lines_count = value
SetPreviewLinesCount ==
    /\ \E value \in PreviewLineCounts :
          viewport' = set_preview_lines_count(viewport, value, termLines)
    /\ UNCHANGED <<cfg, termLines, tty, search, view, menu, pc, hpaints, next_key,
                   menu_was_interrupted, exc, outcome, endReason, downs, unserved,
                   proc, multi, cls, instances>>

\* viewport.keep_visible(c) for a cursor index c of the displayed list
KeepVisible ==
    /\ \E c \in 0 .. Len(view.displayed_index_to_menu_index) - 1 :
          /\ view' = [view EXCEPT !.selected_displayed_index = c]
          /\ viewport' = keep_visible(viewport, c, TRUE, termLines)
    /\ UNCHANGED <<cfg, termLines, tty, search, menu, pc, hpaints, next_key,
                   menu_was_interrupted, exc, outcome, endReason, downs, unserved,
                   proc, multi, cls, instances>>

NextViewport ==
    \/ ViewportResize
    \/ SetSearchLinesCount
    \/ SetPreviewLinesCount
    \/ KeepVisible

SpecViewport == InitViewport /\ [][NextViewport]_vars

(***************************************************************************)
(* Multi-select mode: the selection state machine                          *)
(***************************************************************************)
\* The entries of the multi-select menu: a 3-entry list, by original index
MultiEntryIndices == {0, 1, 2}

InitMulti ==
    /\ cls = NoCls
    /\ instances = <<>>
    /\ InitOf(CHOOSE c \in Configs : TRUE, CHOOSE h \in TermHeights : TRUE)
    /\ proc = NoProc
    /\ \E on_accept \in BOOLEAN, empty_ok \in BOOLEAN :
          multi = [pc |-> "browsing", cursor |-> 0, selected_entry_indices |-> {},
                   toggled |-> {}, select_on_accept |-> on_accept,
                   empty_ok |-> empty_ok, result |-> {}]

\* Flip the membership of index i in a selection set
Toggle(selection, i) == IF i \in selection THEN selection \ {i} ELSE selection \cup {i}

\* A cursor key moves the highlight to another entry
MultiMove ==
    /\ multi.pc = "browsing"
    /\ \E i \in MultiEntryIndices \ {multi.cursor} : multi' = [multi EXCEPT !.cursor = i]
    /\ UNCHANGED <<menuVars, proc, cls, instances>>

\* A toggle key flips the membership of the highlighted entry
MultiToggle ==
    /\ multi.pc = "browsing"
    /\ multi' = [multi EXCEPT
                    !.selected_entry_indices = Toggle(@, multi.cursor),
                    !.toggled = @ \cup {multi.cursor}]
    /\ UNCHANGED <<menuVars, proc, cls, instances>>

\* An accept that always puts the highlighted entry into the selection
accept_with_highlight(m) == m.selected_entry_indices \cup {m.cursor}

\* The selection an accept key finalizes: with "select current on accept" the highlight
\* is toggled first, without it the set is taken as it is
accept_selection(m) ==
    IF m.select_on_accept THEN Toggle(m.selected_entry_indices, m.cursor)
    ELSE m.selected_entry_indices

\* The accept key: finalizing an empty selection is an error unless it is allowed
MultiAccept ==
    /\ multi.pc = "browsing"
    /\ LET selection == accept_selection(multi)
       IN multi' = IF selection = {} /\ ~multi.empty_ok
                   THEN [multi EXCEPT !.pc = "error", !.selected_entry_indices = selection]
                   ELSE [multi EXCEPT !.pc = "accepted", !.selected_entry_indices = selection,
                                      !.result = selection]
    /\ UNCHANGED <<menuVars, proc, cls, instances>>

NextMulti ==
    \/ MultiMove
    \/ MultiToggle
    \/ MultiAccept

SpecMulti == InitMulti /\ [][NextMulti]_vars


(***************************************************************************)
(* Properties of show()                                                    *)
(***************************************************************************)
ShowEnded == pc = "idle" /\ outcome.kind # "none"

ShowReturned == pc = "idle" /\ outcome.kind = "returned"

\* C1: once show() has switched the terminal to raw mode, every way show() can end
\* restores the line settings saved at entry, shows the cursor again and leaves
\* application keypad mode.
C1_TerminalRestoredOnEveryExit ==
    ShowEnded =>
        /\ tty.mode = tty.old_term
        /\ tty.cursor_visible
        /\ ~tty.application_mode

\* The number of _paint_menu calls that have begun and not yet ended
PaintsInProgress ==
    (IF pc \in {"paint_draw", "read_paint_draw"} THEN 1 ELSE 0)
    + Cardinality({i \in DOMAIN hpaints : hpaints[i] = "draw"})

\* C2: a resize notification never makes a paint start while another paint is in
\* progress, in any interleaving.
C2_NoPaintInsideAPaint == PaintsInProgress <= 1

\* C3 as stated: show() returns None if and only if the menu ended by quit or by an
\* interrupt; after an accept key or a shortcut exit it returns the menu index of the
\* highlighted entry, never None.
C3_NoneIffQuitOrInterrupt ==
    ShowReturned =>
        /\ outcome.value = NoneInt <=> endReason \in {"quit", "interrupt"}
        /\ endReason \in {"accept", "shortcut"} => outcome.value \in 0..(NumEntries(cfg) - 1)

\* C3, amended: whenever show() returns, the value is None if and only if the menu
\* ended by quit, by an interrupt, or by an accept key while the filter matches no
\* entry; in every other case it is the index in the original list of the highlighted
\* entry.
C3_NoneIffQuitInterruptOrNothingHighlighted ==
    ShowReturned =>
        /\ outcome.value = NoneInt <=>
               \/ endReason \in {"quit", "interrupt"}
               \/ endReason = "accept" /\ view.displayed_index_to_menu_index = <<>>
        /\ outcome.value # NoneInt =>
               /\ endReason \in {"accept", "shortcut"}
               /\ view.selected_displayed_index \in
                      0..(Len(view.displayed_index_to_menu_index) - 1)
               /\ outcome.value =
                      view.displayed_index_to_menu_index[view.selected_displayed_index + 1]
               /\ outcome.value \in 0..(NumEntries(cfg) - 1)
               /\ menu.chosen_menu_index = outcome.value

\* show() has returned None after an accept key pressed while the filter matched nothing
C3_AcceptedNothing ==
    /\ ShowReturned
    /\ endReason = "accept"
    /\ SearchActive(search)
    /\ view.displayed_index_to_menu_index = <<>>
    /\ outcome.value = NoneInt

\* C4: an interrupt delivered at any point during show() never reaches the caller;
\* show() returns None and chosen_menu_index is None.
C4_InterruptCaughtInsideShow ==
    /\ pc = "idle" => outcome.exc # "KeyboardInterrupt"
    /\ ShowEnded /\ endReason = "interrupt" =>
           /\ outcome.kind = "returned"
           /\ outcome.value = NoneInt
           /\ menu.chosen_menu_index = NoneInt

\* The loop is blocked in os.read: no paint and no handler is running
BlockedInRead == pc = "read_block" /\ hpaints = <<>>

\* C5: when the loop blocks waiting for a key, every resize notification received
\* since show() entered its try block has been followed by a complete paint that began
\* after it, and the viewport has the capacity the present terminal size gives.
C5_NoResizeLostBeforeBlocking ==
    BlockedInRead =>
        /\ ~unserved
        /\ menu.previous_displayed_menu_height # NoneInt
        /\ viewport.num_lines = calculate_num_lines(viewport, termLines)

\* A resize arrived while the loop was blocked; the handler's paint has begun after it
\* and has given the viewport the capacity of the new size
C5_HandlerPaintAfterResize ==
    /\ pc = "read_block"
    /\ hpaints = <<"draw">>
    /\ ~unserved
    /\ termLines = 3
    /\ viewport.num_lines = calculate_num_lines(viewport, 3)
    /\ viewport.num_lines # calculate_num_lines(viewport, 5)

\* C6: browsing from index 0 with n entries, m down keys then an accept key make
\* show() return m mod n with cursor cycling and min(m, n - 1) without it.
C6_DownsThenAccept ==
    ShowReturned /\ endReason = "accept" /\ downs # NoneInt =>
        outcome.value = IF cfg.cycle_cursor
                        THEN downs % NumEntries(cfg)
                        ELSE Min(downs, NumEntries(cfg) - 1)

\* [apple, banana, cherry]: down, down, enter has returned 2
C6_AppleBananaCherry ==
    /\ ShowReturned
    /\ endReason = "accept"
    /\ MenuEntries(cfg) = <<<<"a", "p", "p", "l", "e">>, <<"b", "a", "n", "a", "n", "a">>,
                            <<"c", "h", "e", "r", "r", "y">>>>
    /\ downs = 2
    /\ outcome.value = 2

\* A key is dispatched while no search is active
BrowsingDispatch == Dispatch /\ ~SearchActive(search)

\* C7: while browsing, pressing the shortcut character an entry declares puts the
\* cursor on the first entry declaring it; with exit-on-shortcut enabled it ends show()
\* there and then as a selection, without an accept key; with exit-on-shortcut disabled
\* the menu keeps running.
C7_ShortcutExitsOrMoves ==
    [][ (BrowsingDispatch /\ IsShortcut(cfg, next_key)) =>
            /\ selected_index(view') = ShortcutIndex(cfg, next_key)
            /\ IF cfg.exit_on_shortcut
               THEN pc' = "finally" /\ endReason' = "shortcut" /\ ~menu_was_interrupted'
               ELSE pc' = "paint" ]_vars

\* C8: while browsing, a key equal case-sensitively to a declared shortcut character
\* moves the cursor to its entry, for every declared character and every search-key
\* configuration; a key that differs from a declared character only in case is not
\* that shortcut.
C8_ShortcutsAreCaseSensitive ==
    [][ BrowsingDispatch =>
            /\ IsShortcut(cfg, next_key) =>
                   selected_index(view') = ShortcutIndex(cfg, next_key)
            /\ ~IsShortcut(cfg, next_key) =>
                   /\ endReason' # "shortcut"
                   /\ \A i \in 1..NumEntries(cfg) :
                          /\ ShortcutKeys(cfg)[i] # NoneKey
                          /\ LowerChar(ShortcutKeys(cfg)[i]) = LowerChar(next_key)
                          /\ ~SearchActive(search')
                          /\ selected_index(view') = i - 1
                          => selected_index(view) = i - 1 ]_vars

\* A key that is one letter
IsLetterKey(k) == LowerChar(k) \in AsciiLowercase

\* C9: from browsing, the dedicated search key, or any letter key when no dedicated
\* search key is configured, opens the search with an empty filter text, and no other
\* key opens the search.
C9_SearchOpensWithEmptyFilter ==
    [][ BrowsingDispatch =>
            LET opener == IF cfg.search_key # NoneKey
                          THEN next_key = cfg.search_key
                          ELSE IsLetterKey(next_key) \/ next_key = DEFAULT_SEARCH_KEY
            IN /\ opener => SearchActive(search') /\ search'.search_text = <<>>
               /\ SearchActive(search') => opener ]_vars

\* C10: escape while browsing ends the loop of show() as a quit, with no selection;
\* escape while searching never ends it: the filter is cleared, the menu is browsing
\* again and every entry is displayed.
C10_Escape ==
    [][ (Dispatch /\ next_key = "escape") =>
            IF ~SearchActive(search)
            THEN /\ pc' = "finally"
                 /\ endReason' = "quit"
                 /\ menu_was_interrupted'
            ELSE /\ pc' = "paint"
                 /\ endReason' = endReason
                 /\ menu_was_interrupted' = menu_was_interrupted
                 /\ search'.search_text = NoneText
                 /\ ~SearchActive(search')
                 /\ view'.displayed_index_to_menu_index =
                        [i \in 1..NumEntries(cfg) |-> i - 1] ]_vars

\* Escape has just been handled and the loop goes on: the search it closed is gone and
\* the whole list, longer than one entry, is displayed
C10_EscapeClosedTheSearch ==
    /\ pc = "paint"
    /\ next_key = "escape"
    /\ ~SearchActive(search)
    /\ Len(view.displayed_index_to_menu_index) = 3

\* C11: while searching, backspace on a non-empty filter removes exactly the last
\* character and the search stays open; backspace on an empty filter closes the search
\* and the loop goes on; backspace while browsing changes nothing.
C11_Backspace ==
    [][ (Dispatch /\ next_key = "backspace") =>
            /\ pc' = "paint"
            /\ IF SearchActive(search)
               THEN IF search.search_text # <<>>
                    THEN /\ SearchActive(search')
                         /\ search'.search_text =
                                SubSeq(search.search_text, 1, Len(search.search_text) - 1)
                    ELSE ~SearchActive(search')
               ELSE /\ search' = search
                    /\ view' = view
                    /\ viewport' = viewport
                    /\ menu' = menu ]_vars

PreviewExceptions == {PreviewException(r) : r \in {"cannot_run", "raises"}}

\* C12: a failure of the preview provider (a preview command that exits non-zero or
\* cannot be run, a preview function that raises) never ends show() and never reaches
\* the caller: no exception of the provider is ever in flight in show() or delivered
\* as its outcome.
C12_PreviewFailureStaysInTheBox ==
    /\ exc \notin PreviewExceptions
    /\ outcome.exc \notin PreviewExceptions

\* C13: the exit status is 0 when nothing was selected and i+1 when entry i was
\* selected, and for every selectable index i the status the parent process sees
\* (modulo 256) differs from the no-selection status 0 and from the status of every
\* other selectable index.
C13_ExitStatusTellsTheEntry ==
    proc.pc = "exited" /\ proc.construct.exc = "None" /\ proc.traceback = "None"
      /\ proc.message = "None" =>
        /\ proc.chosen_entry = NoneInt => proc.status = 0
        /\ proc.chosen_entry # NoneInt =>
             /\ proc.status = proc.chosen_entry + 1
             /\ WaitStatus(proc.status) # WaitStatus(0)
             /\ \A j \in (0 .. proc.entries - 1) \ {proc.chosen_entry} :
                    WaitStatus(proc.status) # WaitStatus(j + 1)

\* The run of main() met a configuration or capability error: the command line did not
\* parse, no entries were given, a style is unknown, or the terminal database query failed
MainMetError ==
    \/ ~proc.argv_ok
    \/ ~proc.print_version /\ proc.entries = 0
    \/ proc.pc \in {"show", "exit", "exited"} /\ proc.construct.exc # "None"

\* C14: every configuration or capability error of the command-line program ends the
\* process with a printed message and the no-selection exit status 0, never with an
\* uncaught exception and never with a status that means an entry was selected.
C14_ErrorsExitWithStatusZero ==
    proc.pc = "exited" /\ MainMetError =>
        /\ proc.message # "None"
        /\ proc.traceback = "None"
        /\ WaitStatus(proc.status) = 0

\* main() has called the constructor TerminalMenu(...)
MainConstructed ==
    /\ proc.pc \in {"show", "exit", "exited"}
    /\ proc.argv_ok /\ ~proc.print_version /\ proc.entries > 0

\* The style names of the five style options that are not capability names
UnknownStyles == {style \in Range(Flatten(proc.styles)) : style \notin KnownStyles}

\* The constructor raised: the menu object does not exist, show() was never entered,
\* the terminal is untouched
RaisedAtConstruction ==
    /\ proc.construct.exc # "None"
    /\ proc.pc = "exited" /\ proc.chosen_entry = NoneInt
    /\ pc = "idle" /\ tty.mode = "cooked" /\ ~tty.open
    /\ menu.previous_displayed_menu_height = NoneInt

\* C15 as stated: a style name that is not a known capability name, in any style option,
\* makes the constructor raise InvalidStyleError naming every invalid style, at
\* construction, before raw mode and before any paint.
C15_InvalidStyleRaisesInvalidStyleError ==
    MainConstructed /\ UnknownStyles # {} =>
        /\ RaisedAtConstruction
        /\ proc.construct.exc = "InvalidStyleError"
        /\ Range(proc.construct.styles) = UnknownStyles

\* C15, amended: with an unknown style name the constructor always raises before raw
\* mode and before any paint; it raises InvalidStyleError naming every invalid style
\* when the terminal height query of the Viewport succeeded, and that query's own
\* exception when it failed, because the query comes before the style check.
C15_InvalidStyleRaisesAtConstruction ==
    MainConstructed /\ UnknownStyles # {} =>
        /\ RaisedAtConstruction
        /\ proc.terminfo = "ok" =>
             /\ proc.construct.exc = "InvalidStyleError"
             /\ Range(proc.construct.styles) = UnknownStyles
        /\ proc.terminfo # "ok" =>
             /\ proc.construct.exc = num_lines_exception(proc.terminfo)
             /\ proc.construct.exc # "InvalidStyleError"

\* The constructor raised InvalidStyleError for several invalid styles in several options
C15_SeveralInvalidStylesNamed ==
    /\ MainConstructed
    /\ proc.construct.exc = "InvalidStyleError"
    /\ Cardinality(UnknownStyles) >= 3
    /\ Range(proc.construct.styles) = UnknownStyles

\* C16: in multi-select mode with "select current on accept" disabled, accepting
\* finalizes the existing non-empty selection set as it is and never adds the
\* highlighted entry.
C16_AcceptFinalizesSelectionAsIs ==
    [][ (MultiAccept /\ ~multi.select_on_accept /\ multi.selected_entry_indices # {}) =>
            /\ multi'.pc = "accepted"
            /\ multi'.result = multi.selected_entry_indices
            /\ (multi.cursor \notin multi.selected_entry_indices
                    => multi.cursor \notin multi'.result) ]_vars

\* Entries 0 and 2 were toggled, entry 1 never was, and accept came with the cursor on
\* entry 1 and "select current on accept" disabled: the result is exactly {0, 2}
C16_ZeroAndTwo ==
    /\ multi.pc = "accepted"
    /\ ~multi.select_on_accept
    /\ multi.toggled = {0, 2}
    /\ multi.cursor = 1
    /\ multi.result = {0, 2}

\* A paint has brought the viewport up to date and is drawing the menu
Painting ==
    \/ pc \in {"paint_draw", "read_paint_draw"} /\ hpaints = <<>>
    \/ hpaints # <<>> /\ hpaints[Len(hpaints)] = "draw"

\* A cursor exists: an entry of the displayed list is highlighted
CursorExists == selected_index(view) # NoneInt

\* C17: after any sequence of cursor moves, search edits, shortcut jumps and terminal
\* resizes, at every paint the viewport satisfies
\* 0 <= lower_index <= cursor <= upper_index whenever a cursor exists.
C17_CursorInsideViewportAtEveryPaint ==
    Painting /\ CursorExists =>
        /\ 0 <= viewport.lower_index
        /\ viewport.lower_index <= view.selected_displayed_index
        /\ view.selected_displayed_index <= viewport.upper_index

\* A step in which a paint brings the viewport up to date
PaintBegins == LoopPaintBegin \/ ReadPaintBegin \/ HandlerPaintBegin

\* C19: at every paint, upper_index - lower_index + 1 equals min(capacity, number of
\* menu entries), where capacity = terminal height - title lines - search lines -
\* preview lines as of that paint; scrolling moves both bounds by the same amount and
\* never changes this size.
C19_ViewportSizeIsCapacity ==
    [][ /\ PaintBegins =>
             ViewportSize(viewport') =
                 Min(termLines - viewport'.title_lines_count
                               - viewport'.search_lines_count
                               - viewport'.preview_lines_count,
                     viewport'.num_menu_entries)
        /\ viewport'.num_lines = viewport.num_lines =>
             /\ viewport'.upper_index - viewport.upper_index
                    = viewport'.lower_index - viewport.lower_index
             /\ ViewportSize(viewport') = ViewportSize(viewport) ]_vars

\* A paint of a scrolled viewport whose size is the capacity left by the search line
\* and the preview box, smaller than the number of entries
C19_ScrolledUnderPreview ==
    /\ Painting
    /\ viewport.preview_lines_count >= 3
    /\ viewport.search_lines_count = 1
    /\ viewport.lower_index > 0
    /\ ViewportSize(viewport) = viewport.num_lines
    /\ ViewportSize(viewport) < viewport.num_menu_entries

\* C18: for every non-empty entry list, every viewport state (every terminal height and
\* title/search/preview line budget) and every cursor index c of the displayed list,
\* after keep_visible(c) returns, lower_index <= c <= upper_index holds and
\* upper_index - lower_index + 1 is the same as before the call.
C18_KeepVisibleKeepsCursorAndSize ==
    [][ KeepVisible =>
            /\ viewport'.lower_index <= view'.selected_displayed_index
            /\ view'.selected_displayed_index <= viewport'.upper_index
            /\ ViewportSize(viewport') = ViewportSize(viewport) ]_vars

\* The capacity is what it was when the viewport was last brought up to date
CapacityUnchanged == calculate_num_lines(viewport, termLines) = viewport.num_lines

\* Both bounds of the viewport moved from (lower, upper) by the same distance, and a
\* cursor c that was outside of them is now on the nearest one
ShiftedToNearestBoundary(lower, upper, c) ==
    /\ viewport'.lower_index - lower = viewport'.upper_index - upper
    /\ c < lower => c = viewport'.lower_index
    /\ c >= lower /\ c > upper => c = viewport'.upper_index

\* C20 as stated: keep_visible(c) leaves the bounds unchanged when c already lies within
\* [lower_index, upper_index] and the capacity did not change; otherwise it shifts both
\* bounds by the same signed distance so that c ends exactly on the nearest boundary.
C20_NoOpOrShiftOfTheBounds ==
    [][ KeepVisible =>
          LET c == view'.selected_displayed_index
          IN IF viewport.lower_index <= c /\ c <= viewport.upper_index /\ CapacityUnchanged
             THEN /\ viewport'.lower_index = viewport.lower_index
                  /\ viewport'.upper_index = viewport.upper_index
             ELSE ShiftedToNearestBoundary(viewport.lower_index, viewport.upper_index, c)
      ]_vars

\* C20, amended: when the capacity changed since the last update, the bounds are first
\* reset to (0, min(capacity, entries) - 1); keep_visible(c) then leaves these bounds as
\* they are when c lies within them, and otherwise shifts both by the same signed
\* distance so that c ends exactly on the nearest boundary, never re-centring.
C20_NoOpOrShiftAfterRefresh ==
    [][ KeepVisible =>
          LET c == view'.selected_displayed_index
              capacity == calculate_num_lines(viewport, termLines)
              lower == IF CapacityUnchanged THEN viewport.lower_index ELSE 0
              upper == IF CapacityUnchanged THEN viewport.upper_index
                       ELSE Min(capacity, viewport.num_menu_entries) - 1
          IN IF lower <= c /\ c <= upper
             THEN /\ viewport'.lower_index = lower
                  /\ viewport'.upper_index = upper
             ELSE ShiftedToNearestBoundary(lower, upper, c)
      ]_vars

\* keep_visible has scrolled a viewport of two or more lines down: the cursor is on the
\* lower edge of the screen region, the capacity is the one of the last update
C20_ScrolledToTheCursor ==
    /\ proc = NoProc /\ pc = "idle"
    /\ CapacityUnchanged
    /\ viewport.lower_index >= 1
    /\ ViewportSize(viewport) >= 2
    /\ view.selected_displayed_index = viewport.upper_index

\* C21: the preview line budget stored in the viewport is, for every terminal height,
\* title height and requested size, either 0 or at least 3, and never more than
\* terminal_height - title_lines - 3 (the stored value is never 1, 2 or negative).
C21_PreviewBudgetIsZeroOrAtLeastThree ==
    [][ SetPreviewLinesCount =>
            \/ viewport'.preview_lines_count = 0
            \/ /\ viewport'.preview_lines_count >= 3
               /\ viewport'.preview_lines_count
                      <= termLines - viewport'.title_lines_count
                                   - MIN_VISIBLE_MENU_ENTRIES_COUNT ]_vars

\* C22: whenever the terminal is at least title_lines + 3 lines high, the viewport
\* capacity (lines available for menu entries) is at least the minimum visible-entries
\* floor of 3, whatever preview size is requested and whether or not the search line
\* is shown.
C22_CapacityAtLeastTheFloor ==
    [][ PaintBegins /\ termLines >= viewport.title_lines_count + MIN_VISIBLE_MENU_ENTRIES_COUNT
            => viewport'.num_lines >= MIN_VISIBLE_MENU_ENTRIES_COUNT ]_vars

\* show() has begun and has not painted yet: the main flow is before the loop
BeforeFirstPaint == pc \in {"init_term", "try"}

\* C23: the previous-frame line count is reset to None at the start of every show()
\* call, so the first paint of a show() never deletes lines on account of a frame
\* painted by an earlier show() of the same menu object.
C23_FrameResetAtShowStart ==
    BeforeFirstPaint => menu.previous_displayed_menu_height = NoneInt

(***************************************************************************)
(* The key and capability tables of the class                              *)
(***************************************************************************)
\* A symbolic name: a codename or plain key name (mod "none"), or a key name with a
\* modifier prefix such as ctrl-a (mod "ctrl", key "a")
Plain(s) == [mod |-> "none", key |-> s]
CtrlName(c) == [mod |-> "ctrl", key |-> c]
AltName(c) == [mod |-> "alt", key |-> c]

\* The code points of the characters the model uses
LowerLetters ==
    <<"a","b","c","d","e","f","g","h","i","j","k","l","m",
      "n","o","p","q","r","s","t","u","v","w","x","y","z">>
UpperLetters ==
    <<"A","B","C","D","E","F","G","H","I","J","K","L","M",
      "N","O","P","Q","R","S","T","U","V","W","X","Y","Z">>

IndexOf(seq, c) == CHOOSE i \in 1..Len(seq) : seq[i] = c

\* ord(c)
Ord(c) ==
    IF c \in Range(LowerLetters) THEN 96 + IndexOf(LowerLetters, c)
    ELSE IF c \in Range(UpperLetters) THEN 64 + IndexOf(UpperLetters, c)
    ELSE IF c = "?" THEN 63
    ELSE 47

\* ord(c.upper())
OrdUpper(c) ==
    IF c \in Range(LowerLetters) THEN 64 + IndexOf(LowerLetters, c) ELSE Ord(c)

\* str.lower() of a key name
LowerName(name) ==
    [mod |-> name.mod,
     key |-> IF name.key \in Range(UpperLetters)
             THEN LowerLetters[IndexOf(UpperLetters, name.key)] ELSE name.key]

\* A key name of one character
IsOneCharacter(name) ==
    name.mod = "none" /\ name.key \in Range(LowerLetters) \cup Range(UpperLetters) \cup {"?", "/"}

\* _get_keycode_for_key: the byte sequence of a key name, <<>> with ok = FALSE for
\* the ValueError of a name that cannot be interpreted
get_keycode_for_key(name) ==
    IF IsOneCharacter(name) THEN [ok |-> TRUE, code |-> <<Ord(name.key)>>]
    ELSE IF name.mod = "alt" THEN [ok |-> TRUE, code |-> <<27, Ord(name.key)>>]
    ELSE IF name.mod = "ctrl"
    THEN LET ctrl_code_ascii == OrdUpper(name.key) - 64
         IN [ok |-> TRUE,
             code |-> <<IF ctrl_code_ascii < 0 THEN (ctrl_code_ascii + 128) % 128
                        ELSE ctrl_code_ascii>>]
    ELSE [ok |-> FALSE, code |-> <<>>]

\* _codenames: the keys of _codename_to_capname in the order of the class body
Codenames32 ==
    <<"bg_black", "bg_blue", "bg_cyan", "bg_gray", "bg_green", "bg_purple", "bg_red",
      "bg_yellow", "bold", "clear", "colors", "cursor_down", "cursor_invisible",
      "cursor_up", "cursor_visible", "delete_line", "down", "enter_application_mode",
      "exit_application_mode", "fg_black", "fg_blue", "fg_cyan", "fg_gray", "fg_green",
      "fg_purple", "fg_red", "fg_yellow", "italics", "reset_attributes", "standout",
      "underline", "up">>

IsColor(codename) ==
    codename \in {"bg_black", "bg_blue", "bg_cyan", "bg_gray", "bg_green", "bg_purple",
                  "bg_red", "bg_yellow", "fg_black", "fg_blue", "fg_cyan", "fg_gray",
                  "fg_green", "fg_purple", "fg_red", "fg_yellow"}

\* tput colors. The terminals of the model: "color" with 256 colors and every
\* capability, "mono" with 2 colors and no italics
SupportedColors(term) == IF term = "color" THEN 256 ELSE 2

\* _query_terminfo_database(codename): what tput prints. Cursor keys and cursor moves
\* have the sequences of an xterm in application mode; for the other capabilities only
\* their being distinct and non-empty matters, so each gets ESC [ and its own number.
\* A capability the terminal lacks gives the empty string (tput exits with 1).
query_terminfo_database(term, codename) ==
    IF term = "mono" /\ codename = "italics" THEN <<>>
    ELSE CASE codename = "up" -> <<27, 79, 65>>
           [] codename = "down" -> <<27, 79, 66>>
           [] codename = "cursor_up" -> <<27, 91, 65>>
           [] codename = "cursor_down" -> <<10>>
           [] OTHER -> <<27, 91, 200 + IndexOf(Codenames32, codename)>>

\* _name_to_control_character as the class body defines it, in insertion order
InitialControlCharacters ==
    << [name |-> Plain("backspace"), code |-> <<>>],
       [name |-> CtrlName("j"), code |-> <<10>>],
       [name |-> CtrlName("k"), code |-> <<11>>],
       [name |-> Plain("enter"), code |-> <<13>>],
       [name |-> Plain("escape"), code |-> <<27>>] >>

\* dict[name] = code on an ordered dict: a known key keeps its place
DictSet(dict, name, code) ==
    IF \E i \in 1..Len(dict) : dict[i].name = name
    THEN [i \in 1..Len(dict) |-> IF dict[i].name = name
                                 THEN [name |-> name, code |-> code] ELSE dict[i]]
    ELSE Append(dict, [name |-> name, code |-> code])

DictKeys(dict) == {dict[i].name : i \in 1..Len(dict)}

\* _init_backspace_control_character; erase is what `stty -a` reports as the erase
\* character: "?" for ^?, "H" for ^H, "fails" when stty fails
init_backspace_control_character(dict, erase) ==
    DictSet(dict, Plain("backspace"),
            IF erase = "fails" THEN <<127>> ELSE get_keycode_for_key(CtrlName(erase)).code)

\* _add_missing_control_characters_for_keys: the dict after the loop, and whether the
\* loop ended with the ValueError of an uninterpretable key
RECURSIVE add_missing_control_characters_for_keys(_, _)
add_missing_control_characters_for_keys(dict, keys) ==
    IF keys = <<>> THEN [ok |-> TRUE, dict |-> dict]
    ELSE LET key == Head(keys)
         IN IF key \notin DictKeys(dict)
               /\ ~(key.mod = "none" /\ key.key \in Range(LowerLetters) \cup Range(UpperLetters))
            THEN IF get_keycode_for_key(key).ok
                 THEN add_missing_control_characters_for_keys(
                          DictSet(dict, key, get_keycode_for_key(key).code), Tail(keys))
                 ELSE [ok |-> FALSE, dict |-> dict]
            ELSE add_missing_control_characters_for_keys(dict, Tail(keys))

RECURSIVE DictUpdate(_, _)
\* dict.update(other)
DictUpdate(dict, other) ==
    IF other = <<>> THEN dict
    ELSE DictUpdate(DictSet(dict, Head(other).name, Head(other).code), Tail(other))

\* The dict comprehension of _init_terminal_codes over _codenames
CodenameCodes(term) ==
    [i \in 1..Len(Codenames32) |->
        [name |-> Plain(Codenames32[i]),
         code |-> IF ~IsColor(Codenames32[i]) \/ SupportedColors(term) >= 8
                  THEN query_terminfo_database(term, Codenames32[i]) ELSE <<>>]]

\* {terminal_code: codename for codename, terminal_code in dict.items()}: for a code
\* that several names have, the last name in the order of the dict stays
ReverseMap(dict) ==
    [code \in {dict[i].code : i \in 1..Len(dict)} |->
        LET last == CHOOSE i \in 1..Len(dict) :
                        /\ dict[i].code = code
                        /\ \A j \in (i + 1)..Len(dict) : dict[j].code # code
        IN dict[last].name]

\* _codename_to_terminal_code / _terminal_code_to_codename = None
NoTable == <<>>

\* The accept_keys arguments of the model. The letters are a plain one, the ones whose
\* control characters are backspace, line feed and carriage return, and a capital
AcceptKeyChoices ==
    {<<CtrlName(c)>> : c \in {"a", "h", "j", "m", "A"}}
    \cup {<<AltName(c)>> : c \in {"a", "h", "j", "m", "A"}}
    \cup {<<Plain("enter")>>, <<Plain("x")>>, <<Plain("enter"), CtrlName("a")>>,
          <<CtrlName("A"), CtrlName("a")>>, <<Plain("f1")>>}

NoName == Plain("None")

InitTable ==
    /\ InitOf(CHOOSE c \in Configs : TRUE, CHOOSE h \in TermHeights : TRUE)
    /\ proc = NoProc
    /\ multi = NoMulti
    /\ instances = <<>>
    /\ \E term \in {"color", "mono"}, erase \in {"?", "H", "fails"} :
          cls = [pc |-> "loaded", term |-> term, erase |-> erase,
                 name_to_control_character |-> InitialControlCharacters,
                 codename_to_terminal_code |-> NoTable,
                 terminal_code_to_codename |-> NoTable,
                 built_by |-> 0]

\* A menu object: its accept keys, whether the constructor returned, and what show()
\* made of the last key pressed
NewInstance(keys, constructed) ==
    [accept_keys |-> keys, constructed |-> constructed, pressed |-> NoName,
     next_key |-> NoName, action |-> "none", chosen_accept_key |-> NoName]

\* An _init_terminal_codes that builds the tables in every construction
init_terminal_codes_every_time(c, construction) ==
    LET table == DictUpdate(CodenameCodes(c.term), c.name_to_control_character)
    IN [c EXCEPT !.codename_to_terminal_code = table,
                 !.terminal_code_to_codename = ReverseMap(table),
                 !.built_by = IF c.built_by = 0 THEN construction ELSE c.built_by]

\* _init_terminal_codes: builds both tables unless they are built already
init_terminal_codes(c, construction) ==
    IF c.codename_to_terminal_code # NoTable THEN c
    ELSE LET table == DictUpdate(CodenameCodes(c.term), c.name_to_control_character)
         IN [c EXCEPT !.codename_to_terminal_code = table,
                      !.terminal_code_to_codename = ReverseMap(table),
                      !.built_by = construction]

\* TerminalMenu(..., accept_keys = keys): the style check, then the three class methods
Construct ==
    /\ Len(instances) < MaxConstructions
    /\ \E keys \in AcceptKeyChoices, valid_styles \in BOOLEAN :
          IF ~valid_styles
          THEN /\ instances' = Append(instances, NewInstance(keys, FALSE))
               /\ UNCHANGED cls
          ELSE LET d1 == init_backspace_control_character(
                             cls.name_to_control_character, cls.erase)
                   r == add_missing_control_characters_for_keys(d1, keys)
                   c1 == [cls EXCEPT !.name_to_control_character = r.dict]
               IN IF ~r.ok
                  THEN /\ cls' = c1
                       /\ instances' = Append(instances, NewInstance(keys, FALSE))
                  ELSE /\ cls' = init_terminal_codes(c1, Len(instances) + 1)
                       /\ instances' = Append(instances, NewInstance(keys, TRUE))
    /\ UNCHANGED <<menuVars, proc, multi>>

\* The bytes the terminal sends when the key with this name is pressed
SentBytes(name, erase) ==
    CASE name = Plain("enter") -> <<13>>
      [] name = Plain("escape") -> <<27>>
      [] name = Plain("backspace") -> IF erase = "H" THEN <<8>> ELSE <<127>>
      [] OTHER -> get_keycode_for_key(name).code

\* The string of a byte sequence that is not in the table: a letter is the one-character
\* key name of that letter, anything else is no key name
RawName(code) ==
    IF Len(code) = 1 /\ code[1] \in 97..122 THEN Plain(LowerLetters[code[1] - 96])
    ELSE IF Len(code) = 1 /\ code[1] \in 65..90 THEN Plain(UpperLetters[code[1] - 64])
    ELSE Plain("raw bytes")

\* _read_next_key(ignore_case=False)
read_next_key(reverse, code) ==
    IF code \in DOMAIN reverse THEN reverse[code] ELSE RawName(code)

\* The branch show() takes for a key while browsing, with the default search key and
\* no shortcuts
ShowAction(key, accept_keys) ==
    IF key \in {Plain("up"), CtrlName("k"), Plain("k")} THEN "menu_up"
    ELSE IF key \in {Plain("down"), CtrlName("j"), Plain("j")} THEN "menu_down"
    ELSE IF key \in Range(accept_keys) THEN "accept"
    ELSE IF key \in {Plain("escape"), Plain("q")} THEN "quit"
    ELSE "other"

\* show() of a constructed menu: one of its accept keys is pressed in the first read
PressAcceptKey ==
    /\ cls.codename_to_terminal_code # NoTable
    /\ \E i \in 1..Len(instances) :
          /\ instances[i].constructed
          /\ \E key \in Range(instances[i].accept_keys) :
                LET decoded == read_next_key(cls.terminal_code_to_codename,
                                             SentBytes(key, cls.erase))
                    next_key_ == LowerName(decoded)
                    action == ShowAction(next_key_, instances[i].accept_keys)
                IN instances' = [instances EXCEPT ![i] =
                       [@ EXCEPT !.pressed = key, !.next_key = next_key_,
                                 !.action = action,
                                 !.chosen_accept_key =
                                     IF action = "accept" THEN next_key_ ELSE @]]
    /\ UNCHANGED <<menuVars, proc, multi, cls>>

NextTable ==
    \/ Construct
    \/ PressAcceptKey

SpecTable == InitTable /\ [][NextTable]_vars

\* The capability table and its reverse map are what they were before the step
TablesUnchanged ==
    /\ cls'.codename_to_terminal_code = cls.codename_to_terminal_code
    /\ cls'.terminal_code_to_codename = cls.terminal_code_to_codename

\* The first construction whose constructor returned (0: none did)
FirstConstructed(insts) ==
    IF \E i \in 1..Len(insts) : insts[i].constructed
    THEN CHOOSE i \in 1..Len(insts) :
             insts[i].constructed /\ \A j \in 1..(i - 1) : ~insts[j].constructed
    ELSE 0

\* C24 as stated: across any number of constructions in one process, the capability
\* table and its reverse map are built by exactly the first construction and never
\* modified afterwards.
C24_TableBuiltByFirstConstruction ==
    [][ /\ Len(instances') >= 1 =>
             cls'.built_by = 1 /\ cls'.codename_to_terminal_code # NoTable
        /\ cls.codename_to_terminal_code # NoTable => TablesUnchanged ]_vars

\* C24, amended: the tables are built exactly once, by the first construction that gets
\* as far as _init_terminal_codes (a construction that raises before it, for an invalid
\* style or an uninterpretable accept key, builds nothing), and never modified afterwards.
C24_TableBuiltOnce ==
    [][ /\ cls'.built_by = FirstConstructed(instances')
        /\ (cls'.built_by = 0) = (cls'.codename_to_terminal_code = NoTable)
        /\ (cls'.built_by = 0) = (cls'.terminal_code_to_codename = NoTable)
        /\ cls.codename_to_terminal_code # NoTable => TablesUnchanged ]_vars

\* Two menus were constructed with different accept keys; the tables are the ones the
\* first construction built, without the key of the second
C24_SecondConstructionLeftTheTable ==
    /\ Len(instances) = 2
    /\ instances[1].constructed /\ instances[2].constructed
    /\ cls.built_by = 1
    /\ instances[2].accept_keys = <<AltName("a")>>
    /\ instances[1].accept_keys = <<Plain("enter")>>
    /\ AltName("a") \in DictKeys(cls.name_to_control_character)
    /\ AltName("a") \notin DictKeys(cls.codename_to_terminal_code)

\* C25: for every menu instance, whether or not it is the first one constructed in the
\* process, each of its configured accept keys is decodable: pressing that key ends
\* show() as an accept and chosen_accept_key equals that key.
C25_AcceptKeysAreAccepted ==
    \A i \in 1..Len(instances) :
        instances[i].pressed # NoName =>
            /\ instances[i].action = "accept"
            /\ instances[i].chosen_accept_key = instances[i].pressed

\* The accept keys of the first menu of the process that are neither ctrl-j/ctrl-k nor
\* written with a capital are accepted under their own name, unless a later key of the
\* same list has the same byte sequence
C25_FirstMenuKeysAreAccepted ==
    \A i \in 1..Len(instances) :
        /\ instances[i].pressed # NoName
        /\ cls.built_by = i
        /\ instances[i].pressed \notin {CtrlName("j"), CtrlName("k")}
        /\ instances[i].pressed.key \notin Range(UpperLetters)
        /\ ~(instances[i].pressed = Plain("enter")
                /\ CtrlName("m") \in Range(instances[i].accept_keys))
        => /\ instances[i].action = "accept"
           /\ instances[i].chosen_accept_key = instances[i].pressed

\* C26: the reverse map (byte sequence to symbolic name) never contains the empty
\* sequence as a key: capabilities that resolve to the empty string are left out of it,
\* so an empty read never decodes to a symbolic name.
C26_NoEmptySequenceInReverseMap ==
    cls.terminal_code_to_codename # NoTable =>
        /\ <<>> \notin DOMAIN cls.terminal_code_to_codename
        /\ read_next_key(cls.terminal_code_to_codename, <<>>) = RawName(<<>>)

\* The names of the built table that are written ctrl-<letter> or alt-<letter>
ModifierNames ==
    {name \in DictKeys(cls.codename_to_terminal_code) : name.mod \in {"ctrl", "alt"}}

\* C27: for all ctrl-<letter> and alt-<letter> key names, deriving the byte sequence
\* with the key-derivation algorithm and then decoding it through the reverse map
\* returns the same key name: no other symbolic name in the table claims the sequence.
C27_ModifierKeysRoundTrip ==
    cls.codename_to_terminal_code # NoTable =>
        \A name \in ModifierNames :
            /\ read_next_key(cls.terminal_code_to_codename,
                             get_keycode_for_key(name).code) = name
            /\ \A i \in 1..Len(cls.codename_to_terminal_code) :
                   cls.codename_to_terminal_code[i].code = get_keycode_for_key(name).code
                       => cls.codename_to_terminal_code[i].name = name

\* The round trip alone, without the uniqueness of the sequence
C27_RoundTripAlone ==
    cls.codename_to_terminal_code # NoTable =>
        \A name \in ModifierNames :
            read_next_key(cls.terminal_code_to_codename,
                          get_keycode_for_key(name).code) = name

(***************************************************************************)
(* TerminalMenu.Search on its own: the search text of a constructed menu   *)
(* is assigned any text over a small alphabet, "(" among it, or None       *)
(***************************************************************************)
\* Menus with and without case-sensitive search
SearchConfigs ==
    [entries: {1, 2}, search_key: {DEFAULT_SEARCH_KEY}, exit_on_shortcut: {TRUE},
     cycle_cursor: {TRUE}, search_case_sensitive: BOOLEAN, show_search_hint: {FALSE},
     title_lines: {0}, preview: {"none"}, preview_percent: {25}]

RECURSIVE TextsOfLength(_)
\* The texts of a length over the characters a, n, A and (
TextsOfLength(n) ==
    IF n = 0 THEN {<<>>}
    ELSE {Append(t, ch) : t \in TextsOfLength(n - 1), ch \in {"a", "n", "A", "("}}

InitSearch ==
    /\ \E c \in SearchConfigs, h \in TermHeights : InitOf(c, h)
    /\ proc = NoProc
    /\ multi = NoMulti
    /\ cls = NoCls
    /\ instances = <<>>

\* search.search_text = text, with the change callback the menu registered
SetSearchText ==
    /\ \E n \in 0..MaxSearchLen, none \in BOOLEAN :
          \E text \in IF none THEN {NoneText} ELSE TextsOfLength(n) :
             LET s == set_search_text(cfg, text)
                 uv == update_view(cfg, s, viewport, termLines)
             IN /\ search' = s
                /\ view' = uv.view
                /\ viewport' = uv.viewport
    /\ UNCHANGED <<cfg, termLines, tty, menu, pc, hpaints, next_key,
                   menu_was_interrupted, exc, outcome, endReason, downs, unserved,
                   proc, multi, cls, instances>>

SpecSearch == InitSearch /\ [][SetSearchText]_vars

\* The lengths of the non-empty prefixes of a text that compile
CompilingPrefixes(t) == {k \in 1..Len(t) : Compiles(SubSeq(t, 1, k))}

\* C28: after every assignment of the search text, the compiled pattern is None if and
\* only if the text is None or no non-empty prefix of the text compiles; otherwise the
\* pattern is the compilation of the longest prefix of the text that compiles; and
\* whenever the pattern is None the match list is empty.
C28_PatternIsLongestCompilingPrefix ==
    LET t == search.search_text
    IN /\ (search.search_regex = NoneText)
              <=> (t = NoneText \/ CompilingPrefixes(t) = {})
       /\ search.search_regex # NoneText =>
              \E k \in CompilingPrefixes(t) :
                  /\ \A j \in CompilingPrefixes(t) : j <= k
                  /\ search.search_regex = SubSeq(t, 1, k)
       /\ search.search_regex = NoneText => search.matches = <<>>

\* The text "a(" was assigned and the pattern is that of "a"
C28_PatternOfShorterPrefix ==
    /\ search.search_text = <<"a", "(">>
    /\ search.search_regex = <<"a">>
    /\ search.matches # <<>>

\* C29 as stated: the empty search string is always a valid, trivial pattern matching
\* everything: with search text "" the search has a compiled pattern and its match
\* list contains every entry.
C29_EmptyTextMatchesEverything ==
    search.search_text = <<>> =>
        /\ search.search_regex # NoneText
        /\ Len(search.matches) = NumEntries(cfg)

\* C29, amended: with search text "" the search has no compiled pattern and an empty
\* match list, and the view shows every entry all the same.
C29_EmptyTextShowsEverything ==
    search.search_text = <<>> =>
        /\ search.search_regex = NoneText
        /\ search.matches = <<>>
        /\ view.displayed_index_to_menu_index = [i \in 1..NumEntries(cfg) |-> i - 1]

\* The text "" was assigned to the search of apple, banana, cherry
C29_EmptyTextAssigned ==
    /\ search.search_text = <<>>
    /\ cfg.entries = 1
    /\ Len(view.displayed_index_to_menu_index) = 3

\* C30: for every search text with a compiling pattern, the match list is exactly the
\* entries whose display text contains a match, in original entry order, each paired
\* with its first (leftmost) match span, matching case-insensitively unless the menu
\* was built case-sensitive; "an" over apple, banana, cherry yields only banana, with
\* the span covering positions 1 to 3.
C30_MatchesAreLeftmostInEntryOrder ==
    LET m == search.matches
        pat == search.search_regex
        cs == cfg.search_case_sensitive
        entries == MenuEntries(cfg)
    IN pat # NoneText =>
         /\ \A j \in 1..Len(m) : m[j].i \in 0..(NumEntries(cfg) - 1)
         /\ \A j \in 1..(Len(m) - 1) : m[j].i < m[j + 1].i
         /\ \A i \in 0..(NumEntries(cfg) - 1) :
               (\E j \in 1..Len(m) : m[j].i = i)
                   <=> (\E s \in 1..Len(entries[i + 1]) : MatchesAt(entries[i + 1], pat, s, cs))
         /\ \A j \in 1..Len(m) :
               /\ MatchesAt(entries[m[j].i + 1], pat, m[j].start + 1, cs)
               /\ \A r \in 1..m[j].start : ~MatchesAt(entries[m[j].i + 1], pat, r, cs)
               /\ m[j].end = m[j].start + Len(pat)
         /\ (cfg.entries = 1 /\ search.search_text = <<"a", "n">>)
               => m = <<[i |-> 1, start |-> 1, end |-> 3]>>
         /\ (cfg.entries = 1 /\ search.search_text = <<"A">>)
               => [j \in 1..Len(m) |-> m[j].i] = IF cs THEN <<>> ELSE <<0, 1>>

\* "an" was searched among apple, banana, cherry without regard to case, and banana
\* alone is in the match list
C30_AnFindsBanana ==
    /\ cfg.entries = 1
    /\ ~cfg.search_case_sensitive
    /\ search.search_text = <<"a", "n">>
    /\ Len(search.matches) = 1
    /\ search.matches[1].i = 1

\* The main flow is inside the while loop of show()
InLoop == pc \in TryPcs \ {"try"}

\* C31: show() repeats paint, read one key, dispatch: a key is read only after a paint
\* has completed, each key read is dispatched once, and the loop ends only on an accept
\* key, a quit while browsing, a shortcut with exit-on-shortcut enabled, or an interrupt;
\* no other key ends show().
C31_LoopEndsOnlyOnExitKeys ==
    [][ /\ (pc' = "read_block" /\ pc # "read_block") => pc \in {"read", "read_paint_draw"}
        /\ (pc' = "read" /\ pc # "read") => pc = "paint_draw"
        /\ (pc = "read_block" /\ pc' = "dispatch") => next_key' # NoneKey
        /\ (InLoop /\ pc' = "finally") =>
              /\ endReason' \in {"accept", "quit", "shortcut", "interrupt"}
              /\ endReason' = "quit" => ~SearchActive(search)
              /\ endReason' = "shortcut" => cfg.exit_on_shortcut ]_vars

\* The loop without the keys that cannot be decoded and without a preview provider:
\* it ends only the four ways
C31_LoopOfDecodableKeys ==
    [][ (InLoop /\ pc' = "finally" /\ endReason' # "exception") =>
              /\ endReason' \in {"accept", "quit", "shortcut", "interrupt"}
              /\ endReason' = "quit" => ~SearchActive(search)
              /\ endReason' = "shortcut" => cfg.exit_on_shortcut ]_vars

\* C32: every complete paint ends with the terminal cursor on the row it was on when
\* the paint began: the rows down and the rows up written for the title, the entries,
\* the filler lines, the search line, the preview box, the line deletion and the cursor
\* glyph cancel out, for every viewport size, filter result and preview length.
C32_PaintEndsOnItsFirstRow ==
    Painting =>
        \A r \in PreviewResults(cfg, view, viewport) :
            ~PreviewRaises(r) => paint_menu_rows(cfg, search, view, viewport, r) = 0

\* The same for the paints of a viewport that holds at least one line
C32_PaintOfNonEmptyViewport ==
    Painting /\ ViewportSize(viewport) >= 1 =>
        \A r \in PreviewResults(cfg, view, viewport) :
            ~PreviewRaises(r) => paint_menu_rows(cfg, search, view, viewport, r) = 0

\* A paint runs to its end: the step that assigns _previous_displayed_menu_height
PaintCompletes ==
    \/ LoopPaintEnd /\ pc' = "read"
    \/ ReadPaintEnd /\ pc' = "read_block"
    \/ HandlerPaintEnd /\ pc' = pc /\ outcome' = outcome

\* The paint of the loop's first round in a show() that began with the cursor on the
\* first entry of an unfiltered menu: no key was dispatched (downs is still 0) and no
\* key read has begun, so no paint of this show() has completed and no frame of it is
\* on the screen
FirstPaintOfShow == pc = "paint_draw" /\ downs = 0 /\ ~menu.reading_next_key

\* C33: a paint whose frame has fewer lines than the previously painted frame deletes
\* exactly (previous height - new height) lines, directly below the new frame; when the
\* new frame is not shorter, or there is no previous frame, it deletes no line.
C33_DeletesTheLinesOfTheOldFrame ==
    [][ PaintCompletes =>
          LET previous == menu.previous_displayed_menu_height
              height == menu'.previous_displayed_menu_height
              deleted == delete_old_menu_lines(previous, height)
          IN IF FirstPaintOfShow \/ previous = NoneInt \/ height >= previous
             THEN deleted.count = 0
             ELSE deleted.count = previous - height /\ deleted.row = height + 1 ]_vars

\* The same for the paints that follow a completed paint of the same show(), and for
\* the first paint of a menu object
C33_DeletionWithinOneShow ==
    [][ PaintCompletes /\ ~FirstPaintOfShow =>
          LET previous == menu.previous_displayed_menu_height
              height == menu'.previous_displayed_menu_height
              deleted == delete_old_menu_lines(previous, height)
          IN IF previous = NoneInt \/ height >= previous
             THEN deleted.count = 0
             ELSE deleted.count = previous - height /\ deleted.row = height + 1 ]_vars

(***************************************************************************)
(* A menu constructed with cursor_index                                    *)
(***************************************************************************)
\* A constructor that ignores cursor_index
initial_view_at_first_entry(c, v, vp, cursor_index, lines) ==
    [view |-> v, viewport |-> vp]

\* __init__: `if cursor_index and 0 < cursor_index < len(self._menu_entries)`, then
\* the selected_index setter; cursor_index is NoneInt for None
initial_view(c, v, vp, cursor_index, lines) ==
    IF cursor_index # NoneInt /\ cursor_index # 0
       /\ 0 < cursor_index /\ cursor_index < NumEntries(c)
    THEN set_selected_index(v, vp, cursor_index, lines)
    ELSE [view |-> v, viewport |-> vp]

\* TerminalMenu(["apple", "banana", "cherry", "date"], cursor_index = i) on a terminal
\* of 3 lines, for i = None, a negative index, 0, 3 and 4; the configuration keeps
\* the argument in the field cursor_index
InitCursor ==
    /\ \E h \in {3}, i \in {NoneInt, 0 - 2, 0, 3, 4} :
          LET c == [entries |-> 5, search_key |-> DEFAULT_SEARCH_KEY,
                    exit_on_shortcut |-> TRUE, cycle_cursor |-> TRUE,
                    search_case_sensitive |-> FALSE, show_search_hint |-> FALSE,
                    title_lines |-> 0, preview |-> "none", preview_percent |-> 25,
                    cursor_index |-> i]
              s0 == set_search_text(c, NoneText)
              uv == update_view(c, s0, NewViewport(NumEntries(c), c.title_lines, 0, 0, h), h)
              iv == initial_view(c, uv.view, uv.viewport, i, h)
          IN /\ cfg = c
             /\ termLines = h
             /\ search = s0
             /\ view = iv.view
             /\ viewport = iv.viewport
    /\ tty = [mode |-> "cooked", old_term |-> "None", cursor_visible |-> TRUE,
              application_mode |-> FALSE, open |-> FALSE, sigwinch |-> FALSE]
    /\ menu = NewMenu
    /\ pc = "idle"
    /\ hpaints = <<>>
    /\ next_key = NoneKey
    /\ menu_was_interrupted = FALSE
    /\ exc = "None"
    /\ outcome = [kind |-> "none", value |-> NoneInt, exc |-> "None"]
    /\ endReason = "none"
    /\ downs = NoneInt
    /\ unserved = FALSE
    /\ proc = NoProc
    /\ multi = NoMulti
    /\ cls = NoCls
    /\ instances = <<>>

SpecCursor == InitCursor /\ [][Next]_vars

\* No paint of the menu object has completed
NeverPainted == menu.previous_displayed_menu_height = NoneInt

\* The entry the cursor starts on according to the claim
StartEntry ==
    IF cfg.cursor_index # NoneInt /\ 0 <= cfg.cursor_index /\ cfg.cursor_index < NumEntries(cfg)
    THEN cfg.cursor_index ELSE 0

\* C34: a configured initial cursor index i with 0 <= i < number of entries places the
\* cursor on entry i before the first paint, with i inside the viewport; index 0
\* behaves exactly like no index requested; an index outside that range is ignored
\* without error and the cursor starts on entry 0.
C34_CursorStartsOnConfiguredEntry ==
    NeverPainted =>
        /\ selected_index(view) = StartEntry
        /\ viewport.lower_index <= view.selected_displayed_index
        /\ view.selected_displayed_index <= viewport.upper_index

\* cursor_index = 3 on a terminal of three lines: the first paint is about to begin
\* with the cursor on date and the viewport scrolled to banana, cherry, date
C34_StartsOnDate ==
    /\ pc = "paint" /\ NeverPainted
    /\ cfg.cursor_index = 3
    /\ selected_index(view) = 3
    /\ viewport.lower_index = 1 /\ viewport.upper_index = 3

\* C35: whenever show() returns an index while a non-empty filter is active, that index
\* is a position in the original entry list whose entry matches the current filter;
\* without a filter it is the original-list position of the highlighted entry.
C35_ReturnedIndexIsOriginalPosition ==
    ShowReturned /\ outcome.value # NoneInt =>
        /\ outcome.value \in 0..(NumEntries(cfg) - 1)
        /\ view.selected_displayed_index # NoneInt
        /\ outcome.value = view.displayed_index_to_menu_index[view.selected_displayed_index + 1]
        /\ (SearchActive(search) /\ search.search_text # <<>>) =>
              /\ search.search_regex # NoneText
              /\ FirstMatch(MenuEntries(cfg)[outcome.value + 1], search.search_regex,
                            cfg.search_case_sensitive) # 0
        /\ ~(SearchActive(search) /\ search.search_text # <<>>) =>
              view.selected_displayed_index = outcome.value

\* The filter "b" over apple, banana, cherry was accepted: show() returned 1, the
\* position of banana in the entry list, for the first line of the filtered menu
C35_BananaUnderFilter ==
    /\ ShowReturned
    /\ cfg.entries = 1
    /\ search.search_text = <<"b">>
    /\ view.selected_displayed_index = 0
    /\ outcome.value = 1

\* C36: in every reachable state the cursor's displayed index is None exactly when the
\* displayed (filtered) list is empty, and otherwise is an index within the displayed
\* list, after any sequence of up, down, shortcut and search-edit keys.
C36_CursorWithinDisplayedList ==
    /\ (view.selected_displayed_index = NoneInt) <=> (view.displayed_index_to_menu_index = <<>>)
    /\ view.selected_displayed_index # NoneInt =>
          /\ 0 <= view.selected_displayed_index
          /\ view.selected_displayed_index < Len(view.displayed_index_to_menu_index)

\* A filter that matches no entry was typed and painted: the list is empty, no cursor
C36_NothingMatches ==
    /\ pc = "read_block"
    /\ search.search_text = <<"b", "b">>
    /\ view.displayed_index_to_menu_index = <<>>
    /\ view.selected_displayed_index = NoneInt


\* The step changes the search text
SearchTextChanges == search'.search_text # search.search_text

\* C37: every change of the search text is made by the if/elif chain of show(), which
\* recomputes the view in the same step, before the next paint begins: the displayed list
\* is that of the new text, the cursor is on displayed index 0 (None when nothing matches),
\* whatever line it was on, and displayed index 0 lies inside the viewport
C37_SearchChangeRecomputesView ==
    [][SearchTextChanges =>
          /\ pc = "dispatch" /\ pc' = "paint" /\ hpaints' = <<>>
          /\ view'.displayed_index_to_menu_index =
                 update_view(cfg, search', viewport, termLines).view.displayed_index_to_menu_index
          /\ viewport'.search_lines_count = occupied_lines_count(cfg, search')
          /\ view'.selected_displayed_index =
                 (IF view'.displayed_index_to_menu_index # <<>> THEN 0 ELSE NoneInt)
          /\ viewport'.lower_index <= 0 /\ 0 <= viewport'.upper_index]_vars

\* C37 without the viewport: the view is recomputed in the step that changes the text and
\* the cursor returns to the first displayed entry
C37_SearchChangeResetsCursor ==
    [][SearchTextChanges =>
          /\ pc = "dispatch" /\ pc' = "paint" /\ hpaints' = <<>>
          /\ view'.displayed_index_to_menu_index =
                 update_view(cfg, search', viewport, termLines).view.displayed_index_to_menu_index
          /\ viewport'.search_lines_count = occupied_lines_count(cfg, search')
          /\ view'.selected_displayed_index =
                 (IF view'.displayed_index_to_menu_index # <<>> THEN 0 ELSE NoneInt)]_vars

\* A paint has been called or is in progress (in the main flow or in a handler frame)
PaintRuns == Painting \/ hpaints # <<>>

\* show() has left its loop: the finally block, the two lines after it, or outside show()
InCleanupOrReturned == pc \in {"finally", "clear_menu", "reset_term", "return", "idle"}

\* C38: once show() has begun its cleanup, and after it has returned, no paint runs (a
\* resize notification writes nothing), and no paint runs while the terminal streams are
\* closed
C38_NoPaintOutsideShow ==
    /\ InCleanupOrReturned => ~PaintRuns
    /\ ~tty.open => ~PaintRuns

\* C38 where the handler has been removed or the streams are closed: no paint runs
C38_NoPaintWithoutHandler == ~tty.sigwinch \/ ~tty.open => ~PaintRuns


\* C39: after show() has returned, chosen_accept_key is the accept key that ended this
\* show(), and None when this show() ended by quit, interrupt or shortcut exit, whatever
\* an earlier show() of the same menu ended with
C39_AcceptKeyOfTheLastShow ==
    ShowReturned =>
        IF endReason = "accept"
        THEN menu.chosen_accept_key \in menu_action_to_keys(cfg).accept
        ELSE menu.chosen_accept_key = NoneKey

\* C39 for a show() that ends with an accept key: the accept branch stores the key that was
\* pressed, and no later step of that show() changes it
C39_AcceptKeyStoredOnAccept ==
    [][/\ pc = "dispatch" /\ pc' = "finally" /\ endReason' = "accept" =>
              menu'.chosen_accept_key = DispatchedKey(cfg, search, next_key)
       /\ pc \notin {"dispatch", "idle"} =>
              menu'.chosen_accept_key = menu.chosen_accept_key]_vars
====
